---- MODULE Spec2Model ----
(***************************************************************************)
(* fossilize-replay: the threaded replayer (ThreadedReplayer) and the      *)
(* phase driver (main) of src/cli/fossilize_replay.cpp.                    *)
(*                                                                         *)
(* One driver thread walks playback_order, hands every record of the       *)
(* archive to the deserializer, which calls the enqueue_create_* callbacks *)
(* of the replayer.  Trivial objects are created inline; shader modules    *)
(* and pipelines are pushed on pipeline_work_queue and built by the        *)
(* worker_thread pool.  Every critical section of pipeline_work_queue_mutex*)
(* is one action; the two condition variables are modelled by their sets   *)
(* of blocked threads, with spurious wake-ups allowed.  The worker threads *)
(* run the same code and are told apart by nothing, so the pool is the bag *)
(* of their states.                                                        *)
(***************************************************************************)
EXTENDS Integers, Sequences, FiniteSets, Bags, TLC

\* ------------------------------------------------------------------ bounds
\* --num-threads is drawn from 0..MaxThreads and --loop from 0..MaxLoop.  A run
\* suffers at most MaxFaults failures of its environment: an archive call
\* that fails, a record the deserializer throws on, a create call the device
\* refuses, a device that does not initialise.
MaxThreads == 2
MaxLoop == 2
MaxFaults == 1

\* ------------------------------------------------------- program constants
EXIT_SUCCESS == 0
EXIT_FAILURE == 1

RESOURCE_APPLICATION_INFO == "APPLICATION_INFO"
RESOURCE_SHADER_MODULE == "SHADER_MODULE"
RESOURCE_SAMPLER == "SAMPLER"
RESOURCE_DESCRIPTOR_SET_LAYOUT == "DESCRIPTOR_SET_LAYOUT"
RESOURCE_PIPELINE_LAYOUT == "PIPELINE_LAYOUT"
RESOURCE_RENDER_PASS == "RENDER_PASS"
RESOURCE_GRAPHICS_PIPELINE == "GRAPHICS_PIPELINE"
RESOURCE_COMPUTE_PIPELINE == "COMPUTE_PIPELINE"

playback_order ==
    << RESOURCE_APPLICATION_INFO, RESOURCE_SHADER_MODULE, RESOURCE_SAMPLER,
       RESOURCE_DESCRIPTOR_SET_LAYOUT, RESOURCE_PIPELINE_LAYOUT,
       RESOURCE_RENDER_PASS, RESOURCE_GRAPHICS_PIPELINE,
       RESOURCE_COMPUTE_PIPELINE >>

\* The categories whose enqueue creates the object in the driver thread, and
\* those whose enqueue pushes a PipelineWorkItem.
TrivialTags ==
    { RESOURCE_SAMPLER, RESOURCE_DESCRIPTOR_SET_LAYOUT,
      RESOURCE_PIPELINE_LAYOUT, RESOURCE_RENDER_PASS }
DeferredTags ==
    { RESOURCE_SHADER_MODULE, RESOURCE_GRAPHICS_PIPELINE,
      RESOURCE_COMPUTE_PIPELINE }
PipelineTags == { RESOURCE_GRAPHICS_PIPELINE, RESOURCE_COMPUTE_PIPELINE }
RegistryTags == TrivialTags \cup DeferredTags

\* The archive: what get_hash_list_for_resource_tag yields per category.
\* Hashes are unique within a category.  The application-info records are an
\* input of the run: an archive holds some, or none.
VARIABLE application_infos

ArchiveHashes(tag) ==
    CASE tag = RESOURCE_APPLICATION_INFO -> application_infos
      [] tag = RESOURCE_SHADER_MODULE -> << 1, 2 >>
      [] tag = RESOURCE_GRAPHICS_PIPELINE -> << 1, 2 >>
      [] tag = RESOURCE_COMPUTE_PIPELINE -> << 1 >>
      [] OTHER -> << 1 >>

\* The shader modules the descriptor of a pipeline names in its stages.
ReferencedModules(tag, hash) ==
    CASE tag = RESOURCE_GRAPHICS_PIPELINE -> { 1, 2 }
      [] tag = RESOURCE_COMPUTE_PIPELINE -> { 2 }
      [] OTHER -> {}

\* The values --filter-graphics / --filter-compute may collect.  3 is a hash
\* the archive does not hold.
FilterGraphicsChoices == { {}, {2, 3} }
FilterComputeChoices == { {}, {1} }

\* Handles.  A created object is <<tag, hash, n>>: the n-th object the
\* device created for that hash; VK_NULL_HANDLE is the null handle.
VK_NULL_HANDLE == << >>

\* The ticks of the steady clock the create call that returns handle h takes.
\* The clock is an input; the model gives every call a duration of its own,
\* so that calls differ and a sum of durations is not a count of calls.
CreateDuration(h) == h[2] + h[3]

\* ------------------------------------------------------------------- state
VARIABLES
    num_worker_threads,   \* ThreadedReplayer::num_worker_threads
    loop_count,           \* ThreadedReplayer::loop_count
    filter_graphics,      \* ThreadedReplayer::filter_graphics
    filter_compute,       \* ThreadedReplayer::filter_compute
    registries,           \* the seven unordered_maps, by tag: hash -> handle
    pipeline_cache,       \* ThreadedReplayer::pipeline_cache
    device_was_init,      \* ThreadedReplayer::device_was_init
    pipeline_work_queue,  \* std::queue<PipelineWorkItem>
    queued_count,
    completed_count,
    shutting_down,
    stats,                \* the six atomics: [count, ns], each by tag
    worker,               \* the bag of the worker threads' states [pc, item, i]
    main,                 \* the driver: [pc, tag, idx]
    main_waiting,         \* the driver is blocked on work_done_condition
    exit_code,            \* what main returned (-1: still running)
    report,               \* the counters main printed (<<>>: not yet)
    output,               \* the deserializer's output slots, by tag: hash -> handle
    state_replayer_alive, \* the StateReplayer (descriptors, output slots) lives
    vk_objects,           \* the device: handle -> [dur, destroyed, registered]
    vk_create_calls,      \* the device: <<tag, hash>> -> create calls received
    crashed,              \* the process died of undefined behaviour
    parse_errors,         \* the <<tag, hash>> of the records main logged as throwing
    faults                \* failures of the environment so far

\* set_application_info with --on-disk-pipeline-cache.
VARIABLES
    on_disk_cache,        \* the bytes read from the cache file (<<>>: nothing read)
    props,                \* VkPhysicalDeviceProperties of the live device
    info,                 \* VkPipelineCacheCreateInfo: the initial data (<<>>: none)
    validated,            \* <<b>>: validate_pipeline_cache_header returned b; <<>>: not called
    create_cache_calls,   \* the vkCreatePipelineCache calls: [data, ok]
    cache_pc              \* the position in set_application_info

cache_vars == << on_disk_cache, props, info, validated, create_cache_calls, cache_pc >>

\* ExternalReplayer::Impl (Windows), its child process and the start calls
\* of the process.
VARIABLES
    impl,                 \* the fields process, mapping_handle, mutex, shm_block
    os,                   \* the OS: object -> [opened, closed], calls received
    child,                \* the child process: [state, code]
    shm,                  \* the shared control block the child writes
    caller,               \* the thread using the object: [pc, in_wait, complete]
    result,               \* the last call that returned: [op, value]
    progress,             \* the Progress the caller passes to poll_progress
    shm_index,            \* the static atomic counter
    start_calls           \* concurrent start calls: thread -> [pc, shm_name, shm_mutex_name]

external_vars ==
    << impl, os, child, shm, caller, result, progress, shm_index, start_calls >>

vars ==
    << cache_vars, external_vars,
       application_infos, parse_errors, num_worker_threads, loop_count, filter_graphics, filter_compute,
       registries, pipeline_cache, device_was_init, pipeline_work_queue,
       queued_count, completed_count, shutting_down, stats, worker, main,
       main_waiting, exit_code, report, output, state_replayer_alive,
       vk_objects, vk_create_calls, crashed, faults >>

\* A failure of the environment happens in this step / does not.
Fault == faults < MaxFaults /\ faults' = faults + 1
NoFault == faults' = faults

\* ----------------------------------------------------------------- helpers
\* std::unordered_map::operator[] as an lvalue: m[k] = v, inserting k.
MapPut(m, k, v) == [x \in (DOMAIN m) \cup {k} |-> IF x = k THEN v ELSE m[x]]

\* &m[k]: inserts a value-initialised (null) entry when k is absent.
MapGetOrInsert(m, k) == IF k \in DOMAIN m THEN m ELSE MapPut(m, k, VK_NULL_HANDLE)

EmptyMap == [x \in {} |-> VK_NULL_HANDLE]

samplers == registries[RESOURCE_SAMPLER]
layouts == registries[RESOURCE_DESCRIPTOR_SET_LAYOUT]
pipeline_layouts == registries[RESOURCE_PIPELINE_LAYOUT]
shader_modules == registries[RESOURCE_SHADER_MODULE]
render_passes == registries[RESOURCE_RENDER_PASS]
compute_pipelines == registries[RESOURCE_COMPUTE_PIPELINE]
graphics_pipelines == registries[RESOURCE_GRAPHICS_PIPELINE]

shader_module_count == stats.count[RESOURCE_SHADER_MODULE]
graphics_pipeline_count == stats.count[RESOURCE_GRAPHICS_PIPELINE]
compute_pipeline_count == stats.count[RESOURCE_COMPUTE_PIPELINE]
shader_module_ns == stats.ns[RESOURCE_SHADER_MODULE]
graphics_pipeline_ns == stats.ns[RESOURCE_GRAPHICS_PIPELINE]
compute_pipeline_ns == stats.ns[RESOURCE_COMPUTE_PIPELINE]

thread_pool == 1..num_worker_threads

\* main: if (replayer_opts.num_threads < 1) replayer_opts.num_threads = 1;
FloorThreads(n) == IF n < 1 THEN 1 ELSE n

\* ---------------------------------------------------------------- the device
\* Handles the device created for (tag, hash), and those not yet destroyed.
HandlesOf(tag, hash) == { h \in DOMAIN vk_objects : h[1] = tag /\ h[2] = hash }
LiveHandlesOf(tag, hash) == { h \in HandlesOf(tag, hash) : vk_objects[h].destroyed = 0 }

\* A successful vkCreate*: a fresh handle, remembered with the time the call
\* took, the number of vkDestroy* calls it has received, and whether the
\* replayer stored it in a registry.
VkNewHandle(tag, hash) == << tag, hash, Cardinality(HandlesOf(tag, hash)) + 1 >>
VkCreated(objs, h, reg) ==
    MapPut(objs, h, [dur |-> CreateDuration(h), destroyed |-> 0, registered |-> reg])

\* vkDestroy*(h): counts the call (a null handle is ignored by the API).
VkDestroyed(objs, h) ==
    IF h \in DOMAIN objs
    THEN [objs EXCEPT ![h].destroyed = @ + 1]
    ELSE objs

VkCallCounted(calls, tag, hash) ==
    MapPut(calls, << tag, hash >>,
           IF << tag, hash >> \in DOMAIN calls THEN calls[<< tag, hash >>] + 1 ELSE 1)

CreateCalls(tag, hash) ==
    IF << tag, hash >> \in DOMAIN vk_create_calls THEN vk_create_calls[<< tag, hash >>] ELSE 0

\* ------------------------------------------------------------------ Init
\* The state when main has parsed its arguments and constructed the replayer:
\* the worker threads are started and about to take the queue mutex.
IdleWorker == [pc |-> "pop", item |-> << >>, i |-> 0]
BlockedWorker == [pc |-> "waiting", item |-> << >>, i |-> 0]
ExitedWorker == [pc |-> "exited", item |-> << >>, i |-> 0]

ReplayerInit(infos, threads, loops, graphics, compute) ==
    /\ application_infos \in infos
    /\ parse_errors = {}
    /\ num_worker_threads \in { FloorThreads(n) : n \in threads }
    /\ loop_count \in loops
    /\ filter_graphics \in graphics
    /\ filter_compute \in compute
    /\ registries = [t \in RegistryTags |-> EmptyMap]
    /\ pipeline_cache = VK_NULL_HANDLE
    /\ device_was_init = FALSE
    /\ pipeline_work_queue = << >>
    /\ queued_count = 0
    /\ completed_count = 0
    /\ shutting_down = FALSE
    /\ stats = [count |-> [t \in DeferredTags |-> 0], ns |-> [t \in DeferredTags |-> 0]]
    /\ worker = [s \in { IdleWorker } |-> num_worker_threads]
    /\ main = [pc |-> "prepare", tag |-> 1, idx |-> 1]
    /\ main_waiting = FALSE
    /\ exit_code = -1
    /\ report = << >>
    /\ output = [t \in DeferredTags |-> EmptyMap]
    /\ state_replayer_alive = TRUE
    /\ vk_objects = [h \in {} |-> [dur |-> 0, destroyed |-> 0, registered |-> FALSE]]
    /\ vk_create_calls = [k \in {} |-> 0]
    /\ crashed = FALSE
    /\ faults = 0

\* A run without --on-disk-pipeline-cache: no cache file is read.
CacheUnused ==
    /\ on_disk_cache = << >>
    /\ props = << >>
    /\ info = << >>
    /\ validated = << >>
    /\ create_cache_calls = << >>
    /\ cache_pc = "unused"

\* Handle values: the two "no handle" values of Win32, and the null pointer.
INVALID_HANDLE_VALUE == "INVALID_HANDLE_VALUE"
NULL == "NULL"
nullptr == "nullptr"

\* A freshly constructed Impl, before any call.
NewImpl ==
    [process |-> INVALID_HANDLE_VALUE, mapping_handle |-> INVALID_HANDLE_VALUE,
     mutex |-> INVALID_HANDLE_VALUE, shm_block |-> nullptr]
OsObjects == { "mapping", "view", "mutex", "nul", "thread", "process", NULL }
ExternalNew ==
    /\ impl = NewImpl
    /\ os = [h \in OsObjects |-> [opened |-> 0, closed |-> 0]]
    /\ child = [state |-> "none", code |-> 0]
    /\ shm = [progress_started |-> FALSE, progress_complete |-> FALSE, ticks |-> 0, fifo |-> 0]
    /\ caller = [pc |-> "new", in_wait |-> "no", complete |-> FALSE]
    /\ result = << >>
    /\ progress = << >>

\* A process that uses no ExternalReplayer.
ExternalUnused ==
    /\ ExternalNew
    /\ shm_index = 0
    /\ start_calls = << >>

InitOn(infos, threads, loops, graphics, compute) ==
    /\ ReplayerInit(infos, threads, loops, graphics, compute)
    /\ CacheUnused
    /\ ExternalUnused

\* An archive with two application-info records.
InitWith(threads, loops, graphics, compute) ==
    InitOn({ << 1, 2 >> }, threads, loops, graphics, compute)

\* Every thread count and repetition count, no filter.
Init == InitWith(0..MaxThreads, 0..MaxLoop, { {} }, { {} })

\* Every thread count, at most one repetition, no filter.
InitLive == InitWith(0..MaxThreads, 0..1, { {} }, { {} })

\* An archive with or without application-info records, one repetition.
InitInfo == InitOn({ << >>, << 1 >>, << 1, 2 >> }, 0..MaxThreads, { 1 }, { {} }, { {} })

\* Every pair of filters, one repetition.
InitFilter == InitWith(0..MaxThreads, { 1 }, FilterGraphicsChoices, FilterComputeChoices)

\* ------------------------------------------------------- condition variables
\* The threads blocked in work_available_condition.wait.
Waiters(wk) == CopiesIn(BlockedWorker, wk)

\* One thread of the pool goes from state a to state b.
Moved(wk, a, b) == (wk (-) SetToBag({ a })) (+) SetToBag({ b })

\* A notify_one that reaches nobody.
Woken_Lost(wk) == wk

\* notify_one wakes one blocked thread, if there is one: it will take the
\* mutex and evaluate its predicate.
Woken(wk) == IF Waiters(wk) = 0 THEN wk ELSE Moved(wk, BlockedWorker, IdleWorker)

\* notify_all wakes every blocked thread.
WokenAll(wk) ==
    IF Waiters(wk) = 0 THEN wk
    ELSE (wk (-) [s \in { BlockedWorker } |-> Waiters(wk)])
         (+) [s \in { IdleWorker } |-> Waiters(wk)]

\* The predicate of work_available_condition.wait.
WorkAvailable(down, q) == down \/ q # << >>

\* A barrier that never waits.
WorkDone_Always(queued, completed) == TRUE

\* A barrier that compares the wrong way round: it lets main through while
\* items are outstanding.
WorkDone_Inverted(queued, completed) == queued >= completed

\* The predicate of work_done_condition.wait.
WorkDone(queued, completed) == queued = completed

\* ------------------------------------------------------------- the driver
CurrentTag == playback_order[main.tag]
CurrentHash == ArchiveHashes(CurrentTag)[main.idx]

\* The driver without the barrier after RESOURCE_RENDER_PASS.
AfterTag_NoBarrier(m) ==
    IF m.tag < Len(playback_order)
    THEN [pc |-> "get_hash_list", tag |-> m.tag + 1, idx |-> 1]
    ELSE [pc |-> "final_sync", tag |-> 0, idx |-> 0]

\* Where main goes when the hashes of a tag are exhausted: the barrier after
\* RESOURCE_RENDER_PASS, the next tag, or the final drain.
AfterTag(m) ==
    IF playback_order[m.tag] = RESOURCE_RENDER_PASS
    THEN [pc |-> "sync_render_pass", tag |-> m.tag, idx |-> 0]
    ELSE IF m.tag < Len(playback_order)
         THEN [pc |-> "get_hash_list", tag |-> m.tag + 1, idx |-> 1]
         ELSE [pc |-> "final_sync", tag |-> 0, idx |-> 0]

AfterRecord(m) ==
    IF m.idx < Len(ArchiveHashes(playback_order[m.tag]))
    THEN [m EXCEPT !.idx = @ + 1]
    ELSE AfterTag(m)

\* main at a return statement: the loop variables are out of scope.
Returning == [pc |-> "unwind", tag |-> 0, idx |-> 0]

\* if (!resolver->prepare()) return EXIT_FAILURE;
Prepare ==
    /\ ~crashed /\ main.pc = "prepare"
    /\ \/ /\ main' = [pc |-> "get_hash_list", tag |-> 1, idx |-> 1]
          /\ NoFault
          /\ UNCHANGED exit_code
       \/ /\ Fault
          /\ main' = Returning
          /\ exit_code' = EXIT_FAILURE
    /\ UNCHANGED << cache_vars, external_vars, application_infos, parse_errors,
                    num_worker_threads, loop_count, filter_graphics, filter_compute,
                    registries, pipeline_cache, device_was_init, pipeline_work_queue,
                    queued_count, completed_count, shutting_down, stats, worker,
                    main_waiting, report, output, state_replayer_alive,
                    vk_objects, vk_create_calls, crashed >>

\* if (!resolver->get_hash_list_for_resource_tag(tag, resource_hashes)) return EXIT_FAILURE;
GetHashList ==
    /\ ~crashed /\ main.pc = "get_hash_list"
    /\ \/ /\ main' = IF Len(ArchiveHashes(CurrentTag)) = 0
                     THEN AfterTag(main)
                     ELSE [main EXCEPT !.pc = "record", !.idx = 1]
          /\ NoFault
          /\ UNCHANGED exit_code
       \/ /\ Fault
          /\ main' = Returning
          /\ exit_code' = EXIT_FAILURE
    /\ UNCHANGED << cache_vars, external_vars, application_infos, parse_errors,
                    num_worker_threads, loop_count, filter_graphics, filter_compute,
                    registries, pipeline_cache, device_was_init, pipeline_work_queue,
                    queued_count, completed_count, shutting_down, stats, worker,
                    main_waiting, report, output, state_replayer_alive,
                    vk_objects, vk_create_calls, crashed >>

\* if (!resolver->read_entry(tag, hash, state_json)) return EXIT_FAILURE;
ReadEntryFails ==
    /\ ~crashed /\ main.pc = "record"
    /\ Fault
    /\ main' = Returning
    /\ exit_code' = EXIT_FAILURE
    /\ UNCHANGED << cache_vars, external_vars, application_infos, parse_errors,
                    num_worker_threads, loop_count, filter_graphics, filter_compute,
                    registries, pipeline_cache, device_was_init, pipeline_work_queue,
                    queued_count, completed_count, shutting_down, stats, worker,
                    main_waiting, report, output, state_replayer_alive,
                    vk_objects, vk_create_calls, crashed >>

\* state_replayer.parse throws: the exception is caught and logged, the
\* record is skipped.
ParseThrows ==
    /\ ~crashed /\ main.pc = "record"
    /\ Fault
    /\ parse_errors' = parse_errors \cup { << CurrentTag, CurrentHash >> }
    /\ main' = AfterRecord(main)
    /\ UNCHANGED << cache_vars, external_vars, application_infos,
                    num_worker_threads, loop_count, filter_graphics, filter_compute,
                    registries, pipeline_cache, device_was_init, pipeline_work_queue,
                    queued_count, completed_count, shutting_down, stats, worker,
                    main_waiting, exit_code, report, output, state_replayer_alive,
                    vk_objects, vk_create_calls, crashed >>

\* What a vkCreate* call can do.  Before the device is initialised the call
\* goes through a null device; with the StateReplayer gone the descriptor it
\* reads is freed memory: both are undefined behaviour, so the call may also
\* bring the process down.
CreateOutcomes(dev_init, descriptors_alive) ==
    IF ~dev_init THEN { "fail", "crash" }
    ELSE IF ~descriptors_alive THEN { "ok", "fail", "crash" }
    ELSE { "ok", "fail" }

PIPELINE_CACHE_HANDLE == << "PIPELINE_CACHE", 0, 1 >>

\* set_application_info, run with --pipeline-cache: the first call initialises
\* the device (exit on failure) and creates the pipeline cache, which stays
\* null when the device refuses it; every later call does nothing.
set_application_info ==
    /\ ~crashed /\ main.pc = "record" /\ CurrentTag = RESOURCE_APPLICATION_INFO
    /\ IF device_was_init
       THEN /\ main' = AfterRecord(main)
            /\ NoFault
            /\ UNCHANGED << device_was_init, pipeline_cache, vk_objects, exit_code >>
       ELSE /\ device_was_init' = TRUE
            /\ \/ \* device.init_device fails: exit(EXIT_FAILURE)
                  /\ Fault
                  /\ main' = [main EXCEPT !.pc = "exit_called"]
                  /\ exit_code' = EXIT_FAILURE
                  /\ UNCHANGED << pipeline_cache, vk_objects >>
               \/ \* vkCreatePipelineCache fails, with and without initial data
                  /\ Fault
                  /\ main' = AfterRecord(main)
                  /\ UNCHANGED << pipeline_cache, vk_objects, exit_code >>
               \/ \* vkCreatePipelineCache succeeded
                  /\ NoFault
                  /\ main' = AfterRecord(main)
                  /\ pipeline_cache' = PIPELINE_CACHE_HANDLE
                  /\ vk_objects' = VkCreated(vk_objects, PIPELINE_CACHE_HANDLE, FALSE)
                  /\ UNCHANGED exit_code
    /\ UNCHANGED << cache_vars, external_vars, application_infos, parse_errors,
                    num_worker_threads, loop_count, filter_graphics, filter_compute,
                    registries, pipeline_work_queue,
                    queued_count, completed_count, shutting_down, stats, worker,
                    main_waiting, report, output, state_replayer_alive,
                    vk_create_calls, crashed >>

\* A trivial enqueue that forgets to record the handle.
RegistryStore_Skipped(regs, tag, index, handle) == regs

\* samplers[index] = *sampler, and the same for the other trivial registries.
RegistryStore(regs, tag, index, handle) ==
    [regs EXCEPT ![tag] = MapPut(@, index, handle)]

\* enqueue_create_sampler, enqueue_create_descriptor_set_layout,
\* enqueue_create_pipeline_layout, enqueue_create_render_pass: create in the
\* calling thread; on success record the handle under the hash.
enqueue_create_trivial ==
    /\ ~crashed /\ main.pc = "record" /\ CurrentTag \in TrivialTags
    /\ \E outcome \in CreateOutcomes(device_was_init, state_replayer_alive) :
         /\ vk_create_calls' = VkCallCounted(vk_create_calls, CurrentTag, CurrentHash)
         /\ CASE outcome = "ok" ->
                   LET h == VkNewHandle(CurrentTag, CurrentHash) IN
                   /\ vk_objects' = VkCreated(vk_objects, h, TRUE)
                   /\ registries' = RegistryStore(registries, CurrentTag, CurrentHash, h)
                   /\ main' = AfterRecord(main)
                   /\ NoFault
                   /\ UNCHANGED crashed
              [] outcome = "fail" ->
                   \* returns false: the deserializer gives the record up
                   /\ Fault
                   /\ main' = AfterRecord(main)
                   /\ UNCHANGED << vk_objects, registries, crashed >>
              [] outcome = "crash" ->
                   /\ crashed' = TRUE
                   /\ NoFault
                   /\ UNCHANGED << vk_objects, registries, main >>
    /\ UNCHANGED << cache_vars, external_vars, application_infos, parse_errors,
                    num_worker_threads, loop_count, filter_graphics, filter_compute,
                    pipeline_cache, device_was_init, pipeline_work_queue,
                    queued_count, completed_count, shutting_down, stats, worker,
                    main_waiting, exit_code, report, output, state_replayer_alive >>

\* Each category looks at its own filter only.
FilterAccepts_OwnFilterOnly(tag, hash, fg, fc) ==
    CASE tag = RESOURCE_GRAPHICS_PIPELINE -> fg = {} \/ hash \in fg
      [] tag = RESOURCE_COMPUTE_PIPELINE -> fc = {} \/ hash \in fc
      [] OTHER -> TRUE

\* No filter at all.
FilterAccepts_Any(tag, hash, fg, fc) == TRUE

\* The filter of enqueue_create_graphics_pipeline / _compute_pipeline; shader
\* modules are not filtered.
FilterAccepts(tag, hash, fg, fc) ==
    CASE tag = RESOURCE_GRAPHICS_PIPELINE -> (fg = {} /\ fc = {}) \/ hash \in fg
      [] tag = RESOURCE_COMPUTE_PIPELINE -> (fc = {} /\ fg = {}) \/ hash \in fc
      [] OTHER -> TRUE

\* A push that forgets to count the item.
QueuedAfterPush_Forgotten(queued) == queued

\* queued_count++ under the queue mutex.
QueuedAfterPush(queued) == queued + 1

\* The accepted branch of a deferred enqueue: take the address of the registry
\* slot (inserting a null one), push the work item, notify_one, queued_count++.
PushWorkItem(tag, hash) ==
    /\ registries' = [registries EXCEPT ![tag] = MapGetOrInsert(@, hash)]
    /\ output' = [output EXCEPT ![tag] = MapGetOrInsert(@, hash)]
    /\ pipeline_work_queue' = Append(pipeline_work_queue, [hash |-> hash, tag |-> tag])
    /\ worker' = Woken(worker)
    /\ queued_count' = QueuedAfterPush(queued_count)

enqueue_create_shader_module ==
    /\ ~crashed /\ main.pc = "record" /\ CurrentTag = RESOURCE_SHADER_MODULE
    /\ PushWorkItem(CurrentTag, CurrentHash)
    /\ main' = AfterRecord(main)
    /\ UNCHANGED << cache_vars, external_vars, application_infos, parse_errors,
                    num_worker_threads, loop_count, filter_graphics, filter_compute,
                    pipeline_cache, device_was_init, completed_count, shutting_down,
                    stats, main_waiting, exit_code, report, state_replayer_alive,
                    vk_objects, vk_create_calls, crashed, faults >>

\* A filtered-out branch that still takes the address of the registry slot.
RejectPipeline_InsertsSlot(tag, hash) ==
    /\ output' = [output EXCEPT ![tag] = MapPut(@, hash, VK_NULL_HANDLE)]
    /\ registries' = [registries EXCEPT ![tag] = MapGetOrInsert(@, hash)]
    /\ UNCHANGED << pipeline_work_queue, worker, queued_count >>

\* The filtered-out branch: *pipeline = VK_NULL_HANDLE.
RejectPipeline(tag, hash) ==
    /\ output' = [output EXCEPT ![tag] = MapPut(@, hash, VK_NULL_HANDLE)]
    /\ UNCHANGED << registries, pipeline_work_queue, worker, queued_count >>

enqueue_create_graphics_pipeline ==
    /\ ~crashed /\ main.pc = "record" /\ CurrentTag = RESOURCE_GRAPHICS_PIPELINE
    /\ IF FilterAccepts(CurrentTag, CurrentHash, filter_graphics, filter_compute)
       THEN PushWorkItem(CurrentTag, CurrentHash)
       ELSE RejectPipeline(CurrentTag, CurrentHash)
    /\ main' = AfterRecord(main)
    /\ UNCHANGED << cache_vars, external_vars, application_infos, parse_errors,
                    num_worker_threads, loop_count, filter_graphics, filter_compute,
                    pipeline_cache, device_was_init, completed_count, shutting_down,
                    stats, main_waiting, exit_code, report, state_replayer_alive,
                    vk_objects, vk_create_calls, crashed, faults >>

enqueue_create_compute_pipeline ==
    /\ ~crashed /\ main.pc = "record" /\ CurrentTag = RESOURCE_COMPUTE_PIPELINE
    /\ IF FilterAccepts(CurrentTag, CurrentHash, filter_graphics, filter_compute)
       THEN PushWorkItem(CurrentTag, CurrentHash)
       ELSE RejectPipeline(CurrentTag, CurrentHash)
    /\ main' = AfterRecord(main)
    /\ UNCHANGED << cache_vars, external_vars, application_infos, parse_errors,
                    num_worker_threads, loop_count, filter_graphics, filter_compute,
                    pipeline_cache, device_was_init, completed_count, shutting_down,
                    stats, main_waiting, exit_code, report, state_replayer_alive,
                    vk_objects, vk_create_calls, crashed, faults >>

\* sync_worker_threads, called by main after RESOURCE_RENDER_PASS and after
\* the last tag: under the queue mutex, return when the predicate holds, or
\* block on work_done_condition.
sync_worker_threads ==
    /\ ~crashed /\ main.pc \in { "sync_render_pass", "final_sync" } /\ ~main_waiting
    /\ IF WorkDone(queued_count, completed_count)
       THEN /\ main' = IF main.pc = "sync_render_pass"
                       THEN [pc |-> "get_hash_list", tag |-> main.tag + 1, idx |-> 1]
                       ELSE [main EXCEPT !.pc = "report"]
            /\ UNCHANGED main_waiting
       ELSE /\ main_waiting' = TRUE
            /\ UNCHANGED main
    /\ UNCHANGED << cache_vars, external_vars, application_infos, parse_errors,
                    num_worker_threads, loop_count, filter_graphics, filter_compute,
                    registries, pipeline_cache, device_was_init, pipeline_work_queue,
                    queued_count, completed_count, shutting_down, stats, worker,
                    exit_code, report, output, state_replayer_alive,
                    vk_objects, vk_create_calls, crashed, faults >>

\* A condition variable may wake a blocked thread without a notify; the
\* thread then evaluates its predicate again.
SpuriousWakeup ==
    /\ ~crashed
    /\ \/ /\ main_waiting
          /\ main_waiting' = FALSE
          /\ UNCHANGED worker
       \/ /\ Waiters(worker) > 0
          /\ worker' = Woken(worker)
          /\ UNCHANGED main_waiting
    /\ UNCHANGED << cache_vars, external_vars, application_infos, parse_errors,
                    num_worker_threads, loop_count, filter_graphics, filter_compute,
                    registries, pipeline_cache, device_was_init, pipeline_work_queue,
                    queued_count, completed_count, shutting_down, stats, main,
                    exit_code, report, output, state_replayer_alive,
                    vk_objects, vk_create_calls, crashed, faults >>

\* main reads the six atomics and the sizes of the registries, prints them
\* and returns EXIT_SUCCESS.
Report ==
    /\ ~crashed /\ main.pc = "report"
    /\ report' = [count |-> stats.count, ns |-> stats.ns,
                  size |-> [t \in RegistryTags |-> Cardinality(DOMAIN registries[t])]]
    /\ exit_code' = EXIT_SUCCESS
    /\ main' = Returning
    /\ UNCHANGED << cache_vars, external_vars, application_infos, parse_errors,
                    num_worker_threads, loop_count, filter_graphics, filter_compute,
                    registries, pipeline_cache, device_was_init, pipeline_work_queue,
                    queued_count, completed_count, shutting_down, stats, worker,
                    main_waiting, output, state_replayer_alive,
                    vk_objects, vk_create_calls, crashed, faults >>

\* main returns: its locals are destroyed in reverse order of declaration, the
\* StateReplayer (declared after the replayer) before the replayer.
Unwind ==
    /\ ~crashed /\ main.pc = "unwind"
    /\ state_replayer_alive' = FALSE
    /\ output' = [t \in DeferredTags |-> EmptyMap]
    /\ main' = [main EXCEPT !.pc = "dtor_signal"]
    /\ UNCHANGED << cache_vars, external_vars, application_infos, parse_errors,
                    num_worker_threads, loop_count, filter_graphics, filter_compute,
                    registries, pipeline_cache, device_was_init, pipeline_work_queue,
                    queued_count, completed_count, shutting_down, stats, worker,
                    main_waiting, exit_code, report,
                    vk_objects, vk_create_calls, crashed, faults >>

\* ~ThreadedReplayer, first block: shutting_down = true; notify_all.
DtorSignal ==
    /\ ~crashed /\ main.pc = "dtor_signal"
    /\ shutting_down' = TRUE
    /\ worker' = WokenAll(worker)
    /\ main' = [main EXCEPT !.pc = "dtor_join"]
    /\ UNCHANGED << cache_vars, external_vars, application_infos, parse_errors,
                    num_worker_threads, loop_count, filter_graphics, filter_compute,
                    registries, pipeline_cache, device_was_init, pipeline_work_queue,
                    queued_count, completed_count, stats,
                    main_waiting, exit_code, report, output, state_replayer_alive,
                    vk_objects, vk_create_calls, crashed, faults >>

\* A destructor that does not join.
AllJoined_NoWait(wk) == TRUE

\* thread.join() returns for every thread of thread_pool.
AllJoined(wk) == BagToSet(wk) \subseteq { ExitedWorker }

DtorJoin ==
    /\ ~crashed /\ main.pc = "dtor_join"
    /\ AllJoined(worker)
    /\ main' = [main EXCEPT !.pc = "dtor_destroy"]
    /\ UNCHANGED << cache_vars, external_vars, application_infos, parse_errors,
                    num_worker_threads, loop_count, filter_graphics, filter_compute,
                    registries, pipeline_cache, device_was_init, pipeline_work_queue,
                    queued_count, completed_count, shutting_down, stats, worker,
                    main_waiting, exit_code, report, output, state_replayer_alive,
                    vk_objects, vk_create_calls, crashed, faults >>

\* How many vkDestroy* calls the destructor makes on handle h: one for the
\* pipeline cache if it is h, one for every registry entry that holds h.
DtorDestroyCalls(regs, cache, h) ==
    Cardinality({ e \in UNION { { << t, k >> : k \in DOMAIN regs[t] } : t \in RegistryTags } :
                    regs[e[1]][e[2]] = h })
    + (IF cache = h THEN 1 ELSE 0)

\* ~ThreadedReplayer, the rest: destroy the pipeline cache and every non-null
\* handle of the seven registries.
DtorDestroy ==
    /\ ~crashed /\ main.pc = "dtor_destroy"
    /\ vk_objects' = [h \in DOMAIN vk_objects |->
                        [vk_objects[h] EXCEPT !.destroyed =
                            @ + DtorDestroyCalls(registries, pipeline_cache, h)]]
    /\ main' = [main EXCEPT !.pc = "exited"]
    /\ UNCHANGED << cache_vars, external_vars, application_infos, parse_errors,
                    num_worker_threads, loop_count, filter_graphics, filter_compute,
                    registries, pipeline_cache, device_was_init, pipeline_work_queue,
                    queued_count, completed_count, shutting_down, stats, worker,
                    main_waiting, exit_code, report, output, state_replayer_alive,
                    vk_create_calls, crashed, faults >>

\* ------------------------------------------------------------ worker_thread
\* The per-thread accumulators graphics_ns .. shader_count: set to 0 at the
\* top of worker_thread and never assigned in the loop.
WorkerLocals == [count |-> [t \in DeferredTags |-> 0], ns |-> [t \in DeferredTags |-> 0]]

\* The six fetch_add calls after the loop.
StatsAfterExit(st, locals) ==
    [count |-> [t \in DeferredTags |-> st.count[t] + locals.count[t]],
     ns |-> [t \in DeferredTags |-> st.ns[t] + locals.ns[t]]]

\* A worker that drains the queue before it honours the shutdown.
LeavesLoop_DrainsFirst(sd, queue) == sd /\ queue = << >>

\* if (shutting_down) break; tested before the queue is looked at.
LeavesLoop(sd, queue) == sd

\* A queue that hands out the item pushed last.
QueuePop_Lifo(queue) ==
    [item |-> queue[Len(queue)], rest |-> SubSeq(queue, 1, Len(queue) - 1)]

\* work_item = pipeline_work_queue.front(); pipeline_work_queue.pop();
QueuePop(queue) == [item |-> Head(queue), rest |-> Tail(queue)]

\* Top of the loop, one critical section: wait for the predicate; leave the
\* loop when shutting down, else pop the front of the queue.
WorkerPop ==
    /\ ~crashed /\ BagIn(IdleWorker, worker)
    /\ IF ~WorkAvailable(shutting_down, pipeline_work_queue)
       THEN /\ worker' = Moved(worker, IdleWorker, BlockedWorker)
            /\ UNCHANGED << pipeline_work_queue, stats >>
       ELSE IF LeavesLoop(shutting_down, pipeline_work_queue)
       THEN /\ worker' = Moved(worker, IdleWorker, ExitedWorker)
            /\ stats' = StatsAfterExit(stats, WorkerLocals)
            /\ UNCHANGED pipeline_work_queue
       ELSE /\ worker' = Moved(worker, IdleWorker,
                               [pc |-> "run", item |-> QueuePop(pipeline_work_queue).item,
                                i |-> 0])
            /\ pipeline_work_queue' = QueuePop(pipeline_work_queue).rest
            /\ UNCHANGED stats
    /\ UNCHANGED << cache_vars, external_vars, application_infos, parse_errors,
                    num_worker_threads, loop_count, filter_graphics, filter_compute,
                    registries, pipeline_cache, device_was_init,
                    queued_count, completed_count, shutting_down, main,
                    main_waiting, exit_code, report, output, state_replayer_alive,
                    vk_objects, vk_create_calls, crashed, faults >>

\* A loop that runs once too often.
LoopContinues_OffByOne(i, n) == i <= n

\* for (unsigned i = 0; i < loop_count; i++)
LoopContinues(i, n) == i < n

\* A loop body without the pre-destroy.
HandleToDestroy_Nothing(slot) == VK_NULL_HANDLE

\* "Avoid leak": the handle the body of the loop destroys before it creates.
HandleToDestroy(slot) == slot

\* Statistics that count every create call, failed ones too.
StatsAfterCreate_CountsFailures(st, tag, ok, d) ==
    [count |-> [st.count EXCEPT ![tag] = @ + 1],
     ns |-> [st.ns EXCEPT ![tag] = @ + d]]

\* The statistics after one create call that took d ticks.
StatsAfterCreate(st, tag, ok, d) ==
    IF ok
    THEN [count |-> [st.count EXCEPT ![tag] = @ + 1],
          ns |-> [st.ns EXCEPT ![tag] = @ + d]]
    ELSE st

\* A worker that never publishes the handle.
SlotAfterCreate_Null(ok, out) == VK_NULL_HANDLE

\* A worker that copies the output slot whether the create succeeded or not.
SlotAfterCreate_KeepsOutput(ok, out) == out

\* The registry slot after one create call; out is what the worker reads back
\* from the output slot.
SlotAfterCreate(ok, out) == IF ok THEN out ELSE VK_NULL_HANDLE

\* What *work_item.output reads back after a successful create wrote h to it:
\* h, unless the slot is freed memory, which may read as anything.
OutputReadBack(h, slot_alive) ==
    IF slot_alive THEN { h } ELSE { h, VK_NULL_HANDLE }

\* What a failed create leaves in the output slot: the API does not say.
OutputAfterFailure(old) == { old, VK_NULL_HANDLE }

\* One repetition of the loop over loop_count for the popped item: destroy
\* the handle in the registry slot, null the slot, time the create call; on
\* success add to the atomics and copy the output slot to the registry slot.
WorkerIterate(w) ==
    /\ ~crashed /\ BagIn(w, worker) /\ w.pc = "run" /\ LoopContinues(w.i, loop_count)
    /\ LET tag == w.item.tag
           hash == w.item.hash
           slot == registries[tag][hash]
           objs == VkDestroyed(vk_objects, HandleToDestroy(slot))
           h == VkNewHandle(tag, hash)
       IN \E outcome \in CreateOutcomes(device_was_init, state_replayer_alive) :
            CASE outcome = "crash" ->
                   /\ crashed' = TRUE
                   /\ NoFault
                   /\ UNCHANGED << registries, vk_objects, vk_create_calls, stats,
                                   output, worker >>
              [] outcome = "ok" ->
                   \E out \in OutputReadBack(h, state_replayer_alive) :
                     /\ NoFault
                     /\ vk_objects' = VkCreated(objs, h, SlotAfterCreate(TRUE, out) = h)
                     /\ vk_create_calls' = VkCallCounted(vk_create_calls, tag, hash)
                     /\ stats' = StatsAfterCreate(stats, tag, TRUE, CreateDuration(h))
                     /\ output' = IF state_replayer_alive
                                  THEN [output EXCEPT ![tag][hash] = h]
                                  ELSE output
                     /\ registries' = [registries EXCEPT ![tag][hash] = SlotAfterCreate(TRUE, out)]
                     /\ worker' = Moved(worker, w, [w EXCEPT !.i = @ + 1])
                     /\ UNCHANGED crashed
              [] outcome = "fail" ->
                   \E out \in OutputAfterFailure(IF state_replayer_alive
                                                 THEN output[tag][hash]
                                                 ELSE VK_NULL_HANDLE) :
                     /\ Fault
                     /\ vk_objects' = objs
                     /\ vk_create_calls' = VkCallCounted(vk_create_calls, tag, hash)
                     /\ stats' = StatsAfterCreate(stats, tag, FALSE, CreateDuration(h))
                     /\ output' = IF state_replayer_alive
                                  THEN [output EXCEPT ![tag][hash] = out]
                                  ELSE output
                     /\ registries' = [registries EXCEPT ![tag][hash] = SlotAfterCreate(FALSE, out)]
                     /\ worker' = Moved(worker, w, [w EXCEPT !.i = @ + 1])
                     /\ UNCHANGED crashed
    /\ UNCHANGED << cache_vars, external_vars, application_infos, parse_errors,
                    num_worker_threads, loop_count, filter_graphics, filter_compute,
                    pipeline_cache, device_was_init, pipeline_work_queue,
                    queued_count, completed_count, shutting_down, main,
                    main_waiting, exit_code, report, state_replayer_alive >>

\* A worker that does not count the item it ends.
CompletedAfterItem_Dropped(completed) == completed

\* A worker that counts an item twice.
CompletedAfterItem_Twice(completed) == completed + 2

\* completed_count++ under the queue mutex.
CompletedAfterItem(completed) == completed + 1

\* Bottom of the loop, one critical section: completed_count++, and
\* notify_one on work_done_condition when it reaches queued_count.
WorkerComplete(w) ==
    /\ ~crashed /\ BagIn(w, worker) /\ w.pc = "run" /\ ~LoopContinues(w.i, loop_count)
    /\ completed_count' = CompletedAfterItem(completed_count)
    /\ main_waiting' = IF completed_count' = queued_count THEN FALSE ELSE main_waiting
    /\ worker' = Moved(worker, w, IdleWorker)
    /\ UNCHANGED << cache_vars, external_vars, application_infos, parse_errors,
                    num_worker_threads, loop_count, filter_graphics, filter_compute,
                    registries, pipeline_cache, device_was_init, pipeline_work_queue,
                    queued_count, shutting_down, stats, main,
                    exit_code, report, output, state_replayer_alive,
                    vk_objects, vk_create_calls, crashed, faults >>

\* ------------------------------------------- the on-disk pipeline cache
\* set_application_info when --on-disk-pipeline-cache names a file.  The
\* device properties and the content of the file are inputs.
VK_UUID_SIZE == 16
VK_PIPELINE_CACHE_HEADER_VERSION_ONE == 1

\* A uint32_t, kept as its two 16-bit halves.
uint32_t(n) == [hi |-> (n \div 65536) % 65536, lo |-> n % 65536]

\* A reader that takes the first byte as the most significant one.
read_le_BigEndian(blob, offset) ==
    [hi |-> blob[offset + 1] * 2^8 + blob[offset + 2],
     lo |-> blob[offset + 3] * 2^8 + blob[offset + 4]]

\* The lambda read_le: four bytes from offset, each widened to uint32_t and
\* shifted left by 0, 8, 16 and 24 bits; the shifted bytes have no bit in
\* common, so their bitwise or puts the first two in the low half and the
\* last two in the high half.
read_le(blob, offset) ==
    [hi |-> blob[offset + 3] + blob[offset + 4] * 2^8,
     lo |-> blob[offset + 1] + blob[offset + 2] * 2^8]

\* validate_pipeline_cache_header: the tests in the order of the code, each
\* one returning false.
validate_pipeline_cache_header(blob, p) ==
    IF Len(blob) < 16 + VK_UUID_SIZE THEN FALSE
    ELSE IF read_le(blob, 0) # uint32_t(16 + VK_UUID_SIZE) THEN FALSE
    ELSE IF read_le(blob, 4) # uint32_t(VK_PIPELINE_CACHE_HEADER_VERSION_ONE) THEN FALSE
    ELSE IF p.vendorID # read_le(blob, 8) THEN FALSE
    ELSE IF p.deviceID # read_le(blob, 12) THEN FALSE
    ELSE IF SubSeq(blob, 17, 16 + VK_UUID_SIZE) # p.pipelineCacheUUID THEN FALSE
    ELSE TRUE

\* Two devices; the ids of the second one use all four bytes.
Devices ==
    { [vendorID |-> uint32_t(4318), deviceID |-> uint32_t(7041),
       pipelineCacheUUID |-> [i \in 1..VK_UUID_SIZE |-> i]],
      [vendorID |-> [hi |-> 258, lo |-> 772], deviceID |-> [hi |-> 65280, lo |-> 43981],
       pipelineCacheUUID |-> [i \in 1..VK_UUID_SIZE |-> 255 - i]] }

\* The header a driver writes for device p: length, version, vendor id and
\* device id as 32-bit little-endian words, then the cache UUID.
LittleEndianBytes(v) ==
    << v.lo % 256, v.lo \div 256, v.hi % 256, v.hi \div 256 >>
HeaderOf(p) ==
    LittleEndianBytes(uint32_t(16 + VK_UUID_SIZE))
      \o LittleEndianBytes(uint32_t(VK_PIPELINE_CACHE_HEADER_VERSION_ONE))
      \o LittleEndianBytes(p.vendorID) \o LittleEndianBytes(p.deviceID)
      \o p.pipelineCacheUUID

\* The cache files of the runs: nothing readable; the header of a device,
\* alone, followed by cache data, cut short, with its words byte-swapped, and
\* with any one byte replaced.
Swapped(b) == [i \in 1..Len(b) |-> IF i > 16 THEN b[i] ELSE b[4 * ((i - 1) \div 4) + 4 - ((i - 1) % 4)]]
CacheFiles ==
    { << >> }
    \cup { HeaderOf(p) : p \in Devices }
    \cup { HeaderOf(p) \o << 7, 7 >> : p \in Devices }
    \cup { SubSeq(HeaderOf(p), 1, n) : p \in Devices, n \in { 3, 31 } }
    \cup { Swapped(HeaderOf(p)) : p \in Devices }
    \cup { [HeaderOf(p) EXCEPT ![i] = v] : p \in Devices, i \in 1..(16 + VK_UUID_SIZE), v \in { 0, 255 } }

\* set_application_info has been called for the first time.
InitCache ==
    /\ ReplayerInit({ << 1, 2 >> }, { 1 }, { 1 }, { {} }, { {} })
    /\ on_disk_cache \in CacheFiles
    /\ props \in Devices
    /\ info = << >>
    /\ validated = << >>
    /\ create_cache_calls = << >>
    /\ cache_pc = "init_device"
    /\ ExternalUnused

\* What the steps of this part leave alone.
cache_frame ==
    << application_infos, parse_errors, num_worker_threads, loop_count,
       filter_graphics, filter_compute, registries, pipeline_work_queue,
       queued_count, completed_count, shutting_down, stats, worker, main,
       main_waiting, report, output, state_replayer_alive, vk_objects,
       vk_create_calls, crashed, faults, on_disk_cache, props, external_vars >>

\* device_was_init = true; device.init_device, and exit when it fails.
InitDevice ==
    /\ cache_pc = "init_device"
    /\ device_was_init' = TRUE
    /\ \/ cache_pc' = "exit_called" /\ exit_code' = EXIT_FAILURE
       \/ cache_pc' = "load" /\ UNCHANGED exit_code
    /\ UNCHANGED << cache_frame, pipeline_cache, info, validated, create_cache_calls >>

\* Try to load the on-disk cache: when the file was read, validate it and
\* pass it as initial data if the header is accepted.
LoadOnDiskCache ==
    /\ cache_pc = "load"
    /\ IF on_disk_cache # << >>
       THEN /\ validated' = << validate_pipeline_cache_header(on_disk_cache, props) >>
            /\ info' = IF validated'[1] THEN on_disk_cache ELSE << >>
       ELSE UNCHANGED << validated, info >>
    /\ cache_pc' = "create"
    /\ UNCHANGED << cache_frame, pipeline_cache, device_was_init, exit_code,
                    create_cache_calls >>

\* vkCreatePipelineCache with the create info as it stands.
CreatePipelineCache ==
    /\ cache_pc = "create"
    /\ \E ok \in BOOLEAN :
         /\ create_cache_calls' = Append(create_cache_calls, [data |-> info, ok |-> ok])
         /\ IF ok
            THEN /\ pipeline_cache' = PIPELINE_CACHE_HANDLE
                 /\ cache_pc' = "done"
                 /\ UNCHANGED info
            ELSE /\ info' = << >>
                 /\ cache_pc' = "create_blank"
                 /\ UNCHANGED pipeline_cache
    /\ UNCHANGED << cache_frame, device_was_init, exit_code, validated >>

\* The second attempt, without initial data; the cache stays null when it
\* fails too.
CreateBlankPipelineCache ==
    /\ cache_pc = "create_blank"
    /\ \E ok \in BOOLEAN :
         /\ create_cache_calls' = Append(create_cache_calls, [data |-> info, ok |-> ok])
         /\ pipeline_cache' = IF ok THEN PIPELINE_CACHE_HANDLE ELSE VK_NULL_HANDLE
    /\ cache_pc' = "done"
    /\ UNCHANGED << cache_frame, device_was_init, exit_code, validated, info >>

NextCache ==
    \/ InitDevice
    \/ LoadOnDiskCache
    \/ CreatePipelineCache
    \/ CreateBlankPipelineCache

\* ------------------------------------------------- ExternalReplayer (Windows)
\* The size of one message of the FIFO; its value is set in the control-block
\* header.
ControlBlockMessageSize == 64
\* The FIFO holds at most MaxMessages messages and a half; the child advances
\* its counters at most MaxMessages times.
MaxMessages == 2
\* The number of start calls that run concurrently.
MaxStarts == 3

\* What the steps of this part leave alone.
external_frame ==
    << cache_vars, application_infos, parse_errors, num_worker_threads,
       loop_count, filter_graphics, filter_compute, registries, pipeline_cache,
       device_was_init, pipeline_work_queue, queued_count, completed_count,
       shutting_down, stats, worker, main, main_waiting, exit_code, report,
       output, state_replayer_alive, vk_objects, vk_create_calls, crashed,
       faults >>

\* shm_index.fetch_add(1): the counter is an int32_t and wraps.
IndexAfterFetchAdd_Lost(x) == x
IndexAfterFetchAdd(x) == IF x = 2147483647 THEN -2147483647 - 1 ELSE x + 1

\* sprintf's %lu and %d: the decimal digits, with a sign for a negative %d.
DigitChars == << "0", "1", "2", "3", "4", "5", "6", "7", "8", "9" >>
RECURSIVE Decimal(_)
Decimal(n) ==
    IF n < 10 THEN << DigitChars[n + 1] >>
    ELSE Append(Decimal(n \div 10), DigitChars[(n % 10) + 1])
FormatD(n) ==
    IF n >= 0 THEN Decimal(n)
    ELSE IF n > -10 THEN << "-" >> \o Decimal(-n)
    ELSE LET m == -(n + 10)
         IN << "-" >> \o Append(Decimal((m \div 10) + 1), DigitChars[(m % 10) + 1])
\* sprintf(name, "fossilize-external-%lu-%d", pid, index), character by
\* character after the fixed prefix.
sprintf_name(pid, index) ==
    << "fossilize-external-" >> \o Decimal(pid) \o << "-" >> \o FormatD(index)

\* CloseHandle / UnmapViewOfFile on each of hs in turn, as the OS sees them.
RECURSIVE CloseHandles(_, _)
CloseHandles(o, hs) ==
    IF hs = << >> THEN o
    ELSE CloseHandles([o EXCEPT ![Head(hs)].closed = @ + 1], Tail(hs))
OpenHandles(o, hs) == [h \in OsObjects |-> IF h \in hs THEN [o[h] EXCEPT !.opened = @ + 1] ELSE o[h]]

\* start, from CreateFileMapping on: ok says which of the OS calls succeed.
\* CreateFileMapping and CreateMutexA return NULL when they fail, CreateFileA
\* returns INVALID_HANDLE_VALUE. The value is [ret, impl, opened, closed].
StartOutcome(quiet, ok) ==
    LET m == IF ok.mapping THEN "mapping" ELSE NULL
        i1 == [NewImpl EXCEPT !.mapping_handle = m]
        o1 == { m } \ { NULL }
    IN IF m = INVALID_HANDLE_VALUE
       THEN [ret |-> FALSE, impl |-> i1, opened |-> o1, closed |-> << >>]
       ELSE
       LET v == IF m # NULL /\ ok.view THEN "view" ELSE nullptr
           i2 == [i1 EXCEPT !.shm_block = v]
           o2 == o1 \cup ({ v } \ { nullptr })
       IN IF v = nullptr
          THEN [ret |-> FALSE, impl |-> i2, opened |-> o2, closed |-> << >>]
          ELSE
          LET mu == IF ok.mutex THEN "mutex" ELSE NULL
              i3 == [i2 EXCEPT !.mutex = mu]
              o3 == o2 \cup ({ mu } \ { NULL })
          IN IF mu = INVALID_HANDLE_VALUE
             THEN [ret |-> FALSE, impl |-> i3, opened |-> o3, closed |-> << >>]
             ELSE
             LET nul == IF quiet /\ ok.std THEN "nul" ELSE INVALID_HANDLE_VALUE
                 o4 == o3 \cup ({ nul } \ { INVALID_HANDLE_VALUE })
             IN IF ~ok.std
                THEN [ret |-> FALSE, impl |-> i3, opened |-> o4, closed |-> << >>]
                ELSE IF ~ok.process
                THEN [ret |-> FALSE, impl |-> i3, opened |-> o4, closed |-> << >>]
                ELSE [ret |-> TRUE,
                      impl |-> [i3 EXCEPT !.process = "process"],
                      opened |-> o4 \cup { "thread", "process" },
                      closed |-> (IF nul # INVALID_HANDLE_VALUE THEN << nul >> ELSE << >>)
                                 \o << "thread" >>]

StartCalls == [{ "mapping", "view", "mutex", "std", "process" } -> BOOLEAN]

\* One object, one thread using it: start.
start ==
    /\ caller.pc = "new"
    /\ \E quiet \in BOOLEAN, ok \in StartCalls :
         LET r == StartOutcome(quiet, ok)
         IN /\ impl' = r.impl
            /\ os' = CloseHandles(OpenHandles(os, r.opened), r.closed)
            /\ child' = IF r.ret THEN [state |-> "running", code |-> 0] ELSE child
            /\ result' = [op |-> "start", value |-> r.ret, quiet |-> quiet, ok |-> ok]
    /\ shm_index' = IndexAfterFetchAdd(IndexAfterFetchAdd(shm_index))
    /\ caller' = [caller EXCEPT !.pc = "idle"]
    /\ UNCHANGED << external_frame, shm, progress, start_calls >>

\* poll_progress up to the load of progress_complete; w says which call of
\* poll_progress this is (the caller's own, or wait's first or second).
PollEnter(w) ==
    IF impl.process = INVALID_HANDLE_VALUE
    THEN /\ result' = [op |-> "poll_progress", value |-> "Error", logged |-> 0]
         /\ UNCHANGED caller
    ELSE /\ caller' = [pc |-> "poll_started", in_wait |-> w,
                       complete |-> shm.progress_complete]
         /\ UNCHANGED result

\* poll_progress returns value to where it was called from, having logged
\* that many messages.
PollReturn(value, logged) ==
    /\ result' = [op |-> "poll_progress", value |-> value, logged |-> logged]
    /\ caller' = [caller EXCEPT
                    !.pc = CASE caller.in_wait = "no" -> "idle"
                             [] caller.in_wait = "first" -> "wait_block"
                             [] caller.in_wait = "second" -> "wait_close",
                    !.in_wait = IF caller.in_wait = "no" THEN "no" ELSE "wait"]

poll_progress ==
    /\ caller.pc = "idle"
    /\ PollEnter("no")
    /\ UNCHANGED << external_frame, impl, os, child, shm, progress, shm_index, start_calls >>

PollCheckStarted ==
    /\ caller.pc = "poll_started"
    /\ IF ~shm.progress_started
       THEN PollReturn("ResultNotReady", 0)
       ELSE /\ caller' = [caller EXCEPT !.pc = "poll_counters"]
            /\ UNCHANGED result
    /\ UNCHANGED << external_frame, impl, os, child, shm, progress, shm_index, start_calls >>

\* wait passes a Progress of its own, which it discards.
PollCounters ==
    /\ caller.pc = "poll_counters"
    /\ progress' = IF caller.in_wait = "no" THEN << shm.ticks >> ELSE progress
    /\ caller' = [caller EXCEPT !.pc = "poll_drain"]
    /\ UNCHANGED << external_frame, impl, os, child, shm, result, shm_index, start_calls >>

\* The FIFO, by the number of bytes it holds.
shared_control_block_read_avail(fifo) == fifo
shared_control_block_read(fifo, size) == IF size <= fifo THEN fifo - size ELSE fifo

\* The loop that reads the messages, from its index i on.
DrainContinues_Strict(i, read_avail) == i < read_avail
DrainContinues(i, read_avail) == i <= read_avail
RECURSIVE Drain(_, _, _, _)
Drain(i, read_avail, fifo, logged) ==
    IF DrainContinues(i, read_avail)
    THEN Drain(i + ControlBlockMessageSize, read_avail,
               shared_control_block_read(fifo, ControlBlockMessageSize), logged + 1)
    ELSE [fifo |-> fifo, logged |-> logged]

\* From the lock to the return.
PollDrain ==
    /\ caller.pc = "poll_drain"
    /\ LET read_avail == shared_control_block_read_avail(shm.fifo)
           d == Drain(ControlBlockMessageSize, read_avail, shm.fifo, 0)
       IN /\ shm' = [shm EXCEPT !.fifo = d.fifo]
          /\ PollReturn(IF caller.complete THEN "Complete" ELSE "Running", d.logged)
    /\ UNCHANGED << external_frame, impl, os, child, progress, shm_index, start_calls >>

is_process_complete ==
    /\ caller.pc = "idle"
    /\ result' = [op |-> "is_process_complete",
                  value |-> IF impl.process = INVALID_HANDLE_VALUE THEN TRUE
                            ELSE child.state = "exited"]
    /\ UNCHANGED << external_frame, impl, os, child, shm, caller, progress, shm_index, start_calls >>

\* TerminateProcess ends a running child with exit code 1 and fails on one
\* that has exited.
kill ==
    /\ caller.pc = "idle"
    /\ IF impl.process = INVALID_HANDLE_VALUE
       THEN /\ result' = [op |-> "kill", value |-> FALSE]
            /\ UNCHANGED child
       ELSE /\ result' = [op |-> "kill", value |-> (child.state = "running")]
            /\ child' = IF child.state = "running"
                        THEN [state |-> "exited", code |-> 1] ELSE child
    /\ UNCHANGED << external_frame, impl, os, shm, caller, progress, shm_index, start_calls >>

\* wait, up to its first poll_progress.
wait ==
    /\ caller.pc = "idle"
    /\ IF impl.process = INVALID_HANDLE_VALUE
       THEN /\ result' = [op |-> "wait", value |-> FALSE]
            /\ UNCHANGED caller
       ELSE PollEnter("first")
    /\ UNCHANGED << external_frame, impl, os, child, shm, progress, shm_index, start_calls >>

\* WaitForSingleObject(process, INFINITE) returns when the child has exited;
\* then the second poll_progress.
WaitBlock ==
    /\ caller.pc = "wait_block"
    /\ child.state = "exited"
    /\ PollEnter("second")
    /\ UNCHANGED << external_frame, impl, os, child, shm, progress, shm_index, start_calls >>

\* The handle wait leaves in process.
ProcessAfterWait_Kept(h) == h
ProcessAfterWait(h) == INVALID_HANDLE_VALUE

\* GetExitCodeProcess, CloseHandle, and the return.
WaitClose ==
    /\ caller.pc = "wait_close"
    /\ os' = CloseHandles(os, << impl.process >>)
    /\ impl' = [impl EXCEPT !.process = ProcessAfterWait(impl.process)]
    /\ result' = [op |-> "wait", value |-> (child.code = 0)]
    /\ caller' = [caller EXCEPT !.pc = "idle", !.in_wait = "no"]
    /\ UNCHANGED << external_frame, child, shm, progress, shm_index, start_calls >>

\* ~Impl.
DestroyImpl ==
    /\ caller.pc \in { "new", "idle" }
    /\ os' = CloseHandles(os,
               (IF impl.shm_block # nullptr THEN << impl.shm_block >> ELSE << >>)
               \o (IF impl.mapping_handle # INVALID_HANDLE_VALUE
                   THEN << impl.mapping_handle >> ELSE << >>)
               \o (IF impl.mutex # INVALID_HANDLE_VALUE THEN << impl.mutex >> ELSE << >>)
               \o (IF impl.process # INVALID_HANDLE_VALUE THEN << impl.process >> ELSE << >>))
    /\ caller' = [caller EXCEPT !.pc = "destroyed"]
    /\ result' = [op |-> "~Impl", value |-> TRUE]
    /\ UNCHANGED << external_frame, impl, child, shm, progress, shm_index, start_calls >>

\* The child process: it announces its start, advances its counters, writes
\* to the FIFO under the lock, announces completion, exits.
ChildStarts ==
    /\ child.state = "running"
    /\ ~shm.progress_started
    /\ shm' = [shm EXCEPT !.progress_started = TRUE]
    /\ UNCHANGED << external_frame, impl, os, child, caller, result, progress, shm_index, start_calls >>

ChildTicks ==
    /\ child.state = "running"
    /\ shm.ticks < MaxMessages
    /\ shm' = [shm EXCEPT !.ticks = @ + 1]
    /\ UNCHANGED << external_frame, impl, os, child, caller, result, progress, shm_index, start_calls >>

ChildWrites ==
    /\ child.state = "running"
    /\ \E n \in { ControlBlockMessageSize \div 2, ControlBlockMessageSize } :
         /\ 2 * (shm.fifo + n) <= (2 * MaxMessages + 1) * ControlBlockMessageSize
         /\ shm' = [shm EXCEPT !.fifo = @ + n]
    /\ UNCHANGED << external_frame, impl, os, child, caller, result, progress, shm_index, start_calls >>

ChildCompletes ==
    /\ child.state = "running"
    /\ ~shm.progress_complete
    /\ shm' = [shm EXCEPT !.progress_complete = TRUE]
    /\ UNCHANGED << external_frame, impl, os, child, caller, result, progress, shm_index, start_calls >>

ChildExits ==
    /\ child.state = "running"
    /\ \E code \in { 0, 1 } : child' = [state |-> "exited", code |-> code]
    /\ UNCHANGED << external_frame, impl, os, shm, caller, result, progress, shm_index, start_calls >>

InitExternal ==
    /\ ReplayerInit({ << 1, 2 >> }, { 1 }, { 1 }, { {} }, { {} })
    /\ CacheUnused
    /\ ExternalNew
    /\ shm_index = 0
    /\ start_calls = << >>

NextExternal ==
    \/ start
    \/ poll_progress
    \/ PollCheckStarted
    \/ PollCounters
    \/ PollDrain
    \/ is_process_complete
    \/ kill
    \/ wait
    \/ WaitBlock
    \/ WaitClose
    \/ DestroyImpl
    \/ ChildStarts
    \/ ChildTicks
    \/ ChildWrites
    \/ ChildCompletes
    \/ ChildExits

\* Concurrent start calls of one process, each on its own object: the two
\* sprintf statements of each call, one fetch_add apiece.
ProcessIds == { 4, 1234 }
InitNames ==
    /\ ReplayerInit({ << 1, 2 >> }, { 1 }, { 1 }, { {} }, { {} })
    /\ CacheUnused
    /\ ExternalNew
    /\ shm_index \in { 0, 8, 2147483644 }
    /\ \E pid \in ProcessIds :
         start_calls = [t \in 1..MaxStarts |->
                          [pc |-> "shm_name", pid |-> pid,
                           shm_name |-> << >>, shm_mutex_name |-> << >>]]

StartShmName(t) ==
    /\ start_calls[t].pc = "shm_name"
    /\ start_calls' = [start_calls EXCEPT
                         ![t].shm_name = sprintf_name(start_calls[t].pid, shm_index),
                         ![t].pc = "shm_mutex_name"]
    /\ shm_index' = IndexAfterFetchAdd(shm_index)
    /\ UNCHANGED << external_frame, impl, os, child, shm, caller, result, progress >>

StartShmMutexName(t) ==
    /\ start_calls[t].pc = "shm_mutex_name"
    /\ start_calls' = [start_calls EXCEPT
                         ![t].shm_mutex_name = sprintf_name(start_calls[t].pid, shm_index),
                         ![t].pc = "create_file_mapping"]
    /\ shm_index' = IndexAfterFetchAdd(shm_index)
    /\ UNCHANGED << external_frame, impl, os, child, shm, caller, result, progress >>

NextNames ==
    \/ \E t \in DOMAIN start_calls : StartShmName(t)
    \/ \E t \in DOMAIN start_calls : StartShmMutexName(t)

\* ---------------------------------------------------------- specification
Next ==
    \/ Prepare
    \/ GetHashList
    \/ ReadEntryFails
    \/ ParseThrows
    \/ set_application_info
    \/ enqueue_create_trivial
    \/ enqueue_create_shader_module
    \/ enqueue_create_graphics_pipeline
    \/ enqueue_create_compute_pipeline
    \/ sync_worker_threads
    \/ Report
    \/ Unwind
    \/ DtorSignal
    \/ DtorJoin
    \/ DtorDestroy
    \/ SpuriousWakeup
    \/ WorkerPop
    \/ \E w \in BagToSet(worker) : WorkerIterate(w)
    \/ \E w \in BagToSet(worker) : WorkerComplete(w)

Spec == Init /\ [][Next]_vars

SpecFilter == InitFilter /\ [][Next]_vars
SpecInfo == InitInfo /\ [][Next]_vars
SpecCache == InitCache /\ [][NextCache]_vars
SpecExternal == InitExternal /\ [][NextExternal]_vars
SpecNames == InitNames /\ [][NextNames]_vars

\* The steps of the driver thread, and those of a worker that holds an item.
Driver ==
    \/ Prepare
    \/ GetHashList
    \/ ReadEntryFails
    \/ ParseThrows
    \/ set_application_info
    \/ enqueue_create_trivial
    \/ enqueue_create_shader_module
    \/ enqueue_create_graphics_pipeline
    \/ enqueue_create_compute_pipeline
    \/ sync_worker_threads
    \/ Report
    \/ Unwind
    \/ DtorSignal
    \/ DtorJoin
    \/ DtorDestroy

WorkerRun ==
    \/ \E w \in BagToSet(worker) : WorkerIterate(w)
    \/ \E w \in BagToSet(worker) : WorkerComplete(w)

\* Threads are scheduled fairly: the driver takes its next step, a thread that
\* is about to take the queue mutex gets it, and a create call returns.  A
\* thread blocked on a condition variable is owed nothing but a notify: no
\* fairness is assumed of spurious wake-ups.
FairSpec ==
    /\ InitLive
    /\ [][Next]_vars
    /\ WF_vars(Driver)
    /\ WF_vars(WorkerPop)
    /\ WF_vars(WorkerRun)

\* ------------------------------------------------------------ observations
\* The work items waiting in the queue, and those a worker has popped and
\* not yet marked completed.
QueuedItems == { pipeline_work_queue[k] : k \in 1..Len(pipeline_work_queue) }
RunningWorkers == { w \in BagToSet(worker) : w.pc = "run" }
ItemsInFlight == { w.item : w \in RunningWorkers }
NumberInFlight ==
    BagCardinality(worker) - CopiesIn(IdleWorker, worker)
    - CopiesIn(BlockedWorker, worker) - CopiesIn(ExitedWorker, worker)

Item(tag, hash) == [hash |-> hash, tag |-> tag]

\* A deferred enqueue inserts the registry slot of the hash when it pushes.
Pushed(tag, hash) == hash \in DOMAIN registries[tag]

\* The item of (tag, hash) was pushed, popped and marked completed.
Completed(tag, hash) ==
    /\ Pushed(tag, hash)
    /\ Item(tag, hash) \notin QueuedItems
    /\ Item(tag, hash) \notin ItemsInFlight

ShaderItemsCompleted ==
    \A h \in DOMAIN shader_modules : Completed(RESOURCE_SHADER_MODULE, h)

ArchiveSet(tag) == { ArchiveHashes(tag)[k] : k \in 1..Len(ArchiveHashes(tag)) }
KeysOf(tags) == UNION { { << t, h >> : h \in ArchiveSet(t) } : t \in tags }

PipelineCreateCalled == \E k \in KeysOf(PipelineTags) : CreateCalls(k[1], k[2]) > 0
ShaderCreateCalls == [h \in ArchiveSet(RESOURCE_SHADER_MODULE) |-> CreateCalls(RESOURCE_SHADER_MODULE, h)]

\* This step pushes a work item / pops one / returns from sync_worker_threads.
PushStep == queued_count' # queued_count
PopStep == Len(pipeline_work_queue') < Len(pipeline_work_queue)
SyncReturnStep ==
    /\ main.pc \in { "sync_render_pass", "final_sync" }
    /\ main'.pc \notin { "sync_render_pass", "final_sync" }

\* No item is queued or being executed.
Quiescent ==
    /\ queued_count = completed_count
    /\ pipeline_work_queue = << >>
    /\ RunningWorkers = {}

\* -------------------------------------------------------------- properties
\* C1: no graphics or compute pipeline work item is pushed until every shader
\* module work item pushed before it has been marked completed, and from the
\* first pipeline create call on no shader-module create call is made.
C1_PipelinesAfterShaderModules ==
    [][ /\ (PushStep /\ pipeline_work_queue'[Len(pipeline_work_queue')].tag \in PipelineTags)
            => ShaderItemsCompleted
        /\ PipelineCreateCalled' => (ShaderCreateCalls' = ShaderCreateCalls) ]_vars

\* A pipeline create call has been made with two workers, after both shader
\* modules were created.
C1_Witness ==
    /\ num_worker_threads = 2
    /\ PipelineCreateCalled
    /\ shader_module_count >= 2

\* C3: when sync_worker_threads returns, queued_count = completed_count, the
\* queue is empty and no worker is executing an item, and this stays so over
\* every step that is not a push.
C3_BarrierReturnsQuiescent ==
    [][ /\ SyncReturnStep => Quiescent'
        /\ (Quiescent /\ ~PushStep) => Quiescent' ]_vars

\* The barrier after the render passes has returned with both shader module
\* items completed by two workers.
C3_Witness ==
    /\ main.pc = "get_hash_list" /\ CurrentTag = RESOURCE_GRAPHICS_PIPELINE
    /\ num_worker_threads = 2
    /\ completed_count = 2
    /\ Quiescent

\* C4: queued_count >= completed_count in every state, and no step decreases
\* either counter.
C4_CountersOrdered ==
    /\ [](queued_count >= completed_count)
    /\ [][queued_count' >= queued_count /\ completed_count' >= completed_count]_vars

\* Items are outstanding while others are completed already.
C4_Witness == queued_count > completed_count /\ completed_count > 0

\* The pipeline work item this step pops references module m.
PopsPipelineReferencing(m) ==
    /\ PopStep
    /\ Head(pipeline_work_queue).tag \in PipelineTags
    /\ m \in ReferencedModules(Head(pipeline_work_queue).tag, Head(pipeline_work_queue).hash)

\* C2 as stated: whenever a worker pops the work item of a pipeline, the
\* registry slot of every shader module its descriptor references is non-null.
C2_AsStated ==
    [][ \A m \in ArchiveSet(RESOURCE_SHADER_MODULE) :
          PopsPipelineReferencing(m)
          => (m \in DOMAIN shader_modules /\ shader_modules[m] # VK_NULL_HANDLE) ]_vars

\* C2 amended: whenever a worker pops the work item of a pipeline, the work
\* item of every enqueued shader module its descriptor references has been
\* completed with loop_count create calls, and the registry slot of the module
\* is non-null exactly when the device holds a live module for the hash (the
\* last create call succeeded), which is then the handle in the slot.
C2_ModulesCompletedAtPop ==
    [][ \A m \in ArchiveSet(RESOURCE_SHADER_MODULE) :
          (PopsPipelineReferencing(m) /\ m \in DOMAIN shader_modules)
          => /\ Completed(RESOURCE_SHADER_MODULE, m)
             /\ CreateCalls(RESOURCE_SHADER_MODULE, m) = loop_count
             /\ LiveHandlesOf(RESOURCE_SHADER_MODULE, m) =
                  (IF shader_modules[m] = VK_NULL_HANDLE THEN {} ELSE { shader_modules[m] }) ]_vars

\* Two workers; one has popped a pipeline item while both modules it
\* references are built.
C2_Witness ==
    /\ num_worker_threads = 2
    /\ \E w \in RunningWorkers :
         /\ w.item.tag = RESOURCE_GRAPHICS_PIPELINE
         /\ \A m \in ReferencedModules(w.item.tag, w.item.hash) :
              m \in DOMAIN shader_modules /\ shader_modules[m] # VK_NULL_HANDLE

\* C5: the pool holds at least one worker whatever thread count was
\* configured, and with fair scheduling every pushed work item is eventually
\* popped and marked completed unless shutdown is requested or a create call
\* never returns (the process crashed in it), and every call of
\* sync_worker_threads eventually returns.
C5_ItemsCompleteAndBarrierReturns ==
    /\ [](BagCardinality(worker) = num_worker_threads /\ num_worker_threads >= 1)
    /\ \A k \in KeysOf(DeferredTags) :
         (Item(k[1], k[2]) \in QueuedItems)
         ~> (Completed(k[1], k[2]) \/ shutting_down \/ crashed)
    /\ (main.pc \in { "sync_render_pass", "final_sync" })
       ~> (main.pc \notin { "sync_render_pass", "final_sync" } \/ crashed)

\* The driver is blocked in the final barrier while a worker executes an item
\* and another item waits in the queue: it depends on the worker's notify.
C5_Witness ==
    /\ main.pc = "final_sync" /\ main_waiting
    /\ RunningWorkers # {}
    /\ pipeline_work_queue # << >>

DeferredKeys == KeysOf(DeferredTags)
Slot(tag, hash) == registries[tag][hash]

SlotAssigned(tag, hash) ==
    /\ Pushed(tag, hash)
    /\ Slot(tag, hash)' # Slot(tag, hash)
    /\ Slot(tag, hash)' # VK_NULL_HANDLE

RECURSIVE DestroyCalls(_)
DestroyCalls(hs) ==
    IF hs = {} THEN 0
    ELSE LET h == CHOOSE x \in hs : TRUE
         IN vk_objects[h].destroyed + DestroyCalls(hs \ { h })

\* Every create call made for (tag, hash) succeeded.
AllCreatesSucceeded(tag, hash) ==
    Cardinality(HandlesOf(tag, hash)) = CreateCalls(tag, hash)

\* C7 as stated: at most one created and not yet destroyed handle exists per
\* (deferred category, hash); and when the item of a hash is completed with
\* loop_count = n >= 1 creates that all succeeded, the handles of the hash
\* have received n - 1 destroy calls and the slot holds the n-th handle.
C7_AsStated ==
    \A k \in DeferredKeys :
      /\ Cardinality(LiveHandlesOf(k[1], k[2])) <= 1
      /\ ( /\ Completed(k[1], k[2]) /\ loop_count >= 1
           /\ AllCreatesSucceeded(k[1], k[2])
           /\ main.pc # "exited" )
         => /\ DestroyCalls(HandlesOf(k[1], k[2])) = loop_count - 1
            /\ Slot(k[1], k[2]) = << k[1], k[2], loop_count >>

\* C7 on the runs in which main does not return early: there the objects
\* that own the descriptors and output slots outlive every work item.
C7_WithoutEarlyReturn ==
    (state_replayer_alive \/ exit_code = EXIT_SUCCESS) => C7_AsStated

\* Two repetitions of a shader module have completed: two creates, one
\* destroy, the second handle in the slot.
C7_Witness ==
    /\ loop_count = 2 /\ state_replayer_alive
    /\ Completed(RESOURCE_SHADER_MODULE, 1)
    /\ Slot(RESOURCE_SHADER_MODULE, 1) = << RESOURCE_SHADER_MODULE, 1, 2 >>
    /\ vk_objects[<< RESOURCE_SHADER_MODULE, 1, 1 >>].destroyed = 1

\* Pipeline hashes whose item was pushed / that were handed to the enqueue.
PushedHashes(tag) == DOMAIN registries[tag]
HandedHashes(tag) == DOMAIN output[tag]
FilterOf(tag) ==
    IF tag = RESOURCE_GRAPHICS_PIPELINE THEN filter_graphics ELSE filter_compute

\* C8 as stated: when playback is over and the filter of a pipeline category
\* is not empty, the pushed hashes of the category are the filter intersected
\* with the archive's hashes, and the output slot of every other hash of the
\* archive is null.
C8_AsStated ==
    (main.pc = "report")
    => \A t \in PipelineTags :
         FilterOf(t) # {}
         => /\ PushedHashes(t) = FilterOf(t) \cap ArchiveSet(t)
            /\ \A h \in ArchiveSet(t) \ FilterOf(t) :
                 h \in HandedHashes(t) /\ output[t][h] = VK_NULL_HANDLE

\* C8, amended: while main has not returned and the filter of a pipeline
\* category is not empty, the pushed hashes of the category are the filter
\* intersected with the hashes whose record was deserialized and handed to
\* the enqueue, the output slot of every other handed hash is null, and
\* create is called for no hash outside the filter; when playback is over and
\* no record failed, the handed hashes are all hashes of the archive.
C8_FilterOnDeserialized ==
    state_replayer_alive
    => \A t \in PipelineTags :
         FilterOf(t) # {}
         => /\ PushedHashes(t) = FilterOf(t) \cap HandedHashes(t)
            /\ \A h \in HandedHashes(t) \ FilterOf(t) : output[t][h] = VK_NULL_HANDLE
            /\ \A h \in ArchiveSet(t) : CreateCalls(t, h) > 0 => h \in FilterOf(t)
            /\ (main.pc = "report" /\ faults = 0) => HandedHashes(t) = ArchiveSet(t)

\* Playback is over with graphics filter {2, 3}: pipeline 2 was built,
\* pipeline 1 was rejected with a null output slot.
C8_Witness ==
    /\ main.pc = "report" /\ filter_graphics = { 2, 3 }
    /\ PushedHashes(RESOURCE_GRAPHICS_PIPELINE) = { 2 }
    /\ CreateCalls(RESOURCE_GRAPHICS_PIPELINE, 2) = 1
    /\ 1 \in HandedHashes(RESOURCE_GRAPHICS_PIPELINE)
    /\ output[RESOURCE_GRAPHICS_PIPELINE][1] = VK_NULL_HANDLE

\* C9: no handle receives two destroy calls, and when the destructor of the
\* replayer has run every handle that was stored in a registry has received
\* exactly one.
C9_RegisteredDestroyedOnce ==
    \A h \in DOMAIN vk_objects :
      /\ vk_objects[h].destroyed <= 1
      /\ (main.pc = "exited" /\ vk_objects[h].registered) => vk_objects[h].destroyed = 1

\* Torn down after two repetitions: the first handle of a shader module was
\* destroyed by the worker, the second and a sampler by the destructor.
C9_Witness ==
    /\ main.pc = "exited" /\ loop_count = 2
    /\ \A n \in 1..2 :
         /\ << RESOURCE_SHADER_MODULE, 1, n >> \in DOMAIN vk_objects
         /\ vk_objects[<< RESOURCE_SHADER_MODULE, 1, n >>].registered
    /\ \E h \in DOMAIN vk_objects : h[1] \in TrivialTags /\ vk_objects[h].registered

\* The successful create calls of a category, and the time they took.
SuccessfulCreates(tag) == { h \in DOMAIN vk_objects : h[1] = tag }
RECURSIVE TotalDuration(_)
TotalDuration(hs) ==
    IF hs = {} THEN 0
    ELSE LET h == CHOOSE x \in hs : TRUE
         IN vk_objects[h].dur + TotalDuration(hs \ { h })
\* C10: for each deferred category the count is the number of successful
\* create calls and the nanoseconds are the sum of their durations, at every
\* moment, after the workers have left their loops too; the report made after
\* the final barrier shows these numbers.
C10_StatsAreSuccessfulCreates ==
    /\ \A t \in DeferredTags :
         /\ stats.count[t] = Cardinality(SuccessfulCreates(t))
         /\ stats.ns[t] = TotalDuration(SuccessfulCreates(t))
    /\ report # << >> => (report.count = stats.count /\ report.ns = stats.ns)

\* Reported and torn down: three shader-module creates succeeded, one failed.
C10_Witness ==
    /\ main.pc = "exited" /\ report # << >> /\ loop_count = 2
    /\ report.count[RESOURCE_SHADER_MODULE] = 3
    /\ CreateCalls(RESOURCE_SHADER_MODULE, 1) + CreateCalls(RESOURCE_SHADER_MODULE, 2) = 4
    /\ report.ns[RESOURCE_SHADER_MODULE] > 0

\* This step is a create call for (tag, hash) that the device refused.
FailedCreateStep(tag, hash) ==
    /\ CreateCalls(tag, hash)' = CreateCalls(tag, hash) + 1
    /\ HandlesOf(tag, hash)' = HandlesOf(tag, hash)

\* Some create call for (tag, hash) was refused.
CreateFailed(tag, hash) ==
    CreateCalls(tag, hash) > Cardinality(HandlesOf(tag, hash))

\* The worker that holds the item of (tag, hash) goes on to the loop test
\* with the next i.
WorkerAdvanced(tag, hash) ==
    \E w \in RunningWorkers :
      /\ w.item = Item(tag, hash)
      /\ BagIn([w EXCEPT !.i = @ + 1], worker')

\* C11: a deferred create call that fails leaves the registry slot of its
\* hash null, adds nothing to the statistics, changes the registry slot and
\* the device objects of no other hash, leaves the driver, the exit code, the
\* queue and both counters alone, and the worker goes on with its loop; no
\* hash gets more than loop_count create calls; the slot of a hash whose creates
\* all failed is null; a run that reports ends with
\* EXIT_SUCCESS whatever failed.
C11_FailedCreateIsolated ==
    /\ [][\A k \in DeferredKeys :
            FailedCreateStep(k[1], k[2])
            => /\ Slot(k[1], k[2])' = VK_NULL_HANDLE
               /\ stats' = stats
               /\ \A j \in DeferredKeys \ { k } :
                    /\ Pushed(j[1], j[2]) => Slot(j[1], j[2])' = Slot(j[1], j[2])
                    /\ HandlesOf(j[1], j[2])' = HandlesOf(j[1], j[2])
                    /\ \A h \in HandlesOf(j[1], j[2]) : vk_objects'[h] = vk_objects[h]
               /\ WorkerAdvanced(k[1], k[2])
               /\ UNCHANGED << main, exit_code, shutting_down, pipeline_work_queue,
                               queued_count, completed_count, crashed >>]_vars
    /\ [](\A k \in DeferredKeys :
            /\ CreateCalls(k[1], k[2]) <= loop_count
            /\ (Pushed(k[1], k[2]) /\ HandlesOf(k[1], k[2]) = {})
               => Slot(k[1], k[2]) = VK_NULL_HANDLE)
    /\ [](report # << >> => exit_code = EXIT_SUCCESS)

\* Two graphics pipelines, one repetition: the create of the first failed, the
\* second was built, the count is 1 and main returned EXIT_SUCCESS.
C11_Witness ==
    /\ loop_count = 1 /\ exit_code = EXIT_SUCCESS /\ main.pc = "exited"
    /\ CreateFailed(RESOURCE_GRAPHICS_PIPELINE, 1)
    /\ Completed(RESOURCE_GRAPHICS_PIPELINE, 1)
    /\ Slot(RESOURCE_GRAPHICS_PIPELINE, 1) = VK_NULL_HANDLE
    /\ Slot(RESOURCE_GRAPHICS_PIPELINE, 2) = << RESOURCE_GRAPHICS_PIPELINE, 2, 1 >>
    /\ report.count[RESOURCE_GRAPHICS_PIPELINE] = 1

\* The states of a hash of a deferred category.
Unseen(tag, hash) == ~Pushed(tag, hash)
Built(tag, hash) == Pushed(tag, hash) /\ Slot(tag, hash) # VK_NULL_HANDLE
Failed(tag, hash) ==
    /\ Pushed(tag, hash) /\ Slot(tag, hash) = VK_NULL_HANDLE
    /\ CreateFailed(tag, hash)

\* C12 as stated: a slot that holds a handle keeps that handle, and a hash
\* whose create failed keeps a null slot and gets no further create call.
C12_AsStated ==
    [][\A k \in DeferredKeys :
         /\ Built(k[1], k[2]) => Slot(k[1], k[2])' = Slot(k[1], k[2])
         /\ Failed(k[1], k[2])
            => /\ Slot(k[1], k[2])' = VK_NULL_HANDLE
               /\ CreateCalls(k[1], k[2])' = CreateCalls(k[1], k[2])]_vars

\* This step is a create call for (tag, hash) that returned a handle.
SucceededCreateStep(tag, hash) ==
    /\ CreateCalls(tag, hash)' = CreateCalls(tag, hash) + 1
    /\ HandlesOf(tag, hash)' # HandlesOf(tag, hash)

\* C12, amended: a hash leaves Unseen only by a push, which queues its item
\* with a null slot, and never returns to Unseen; its slot changes only in a
\* create call of the worker that executes its item, a successful call
\* storing the new handle while the output slot is alive; a slot that is
\* not null holds a handle of its hash, not destroyed before teardown; once
\* the item is marked completed the slot never changes and no create call is
\* made for the hash; with loop_count = 1 a slot that holds a handle keeps
\* it, and a failed hash keeps a null slot and gets no further create call.
C12_SlotFinalOnceCompleted ==
    /\ [][\A k \in DeferredKeys :
            /\ Pushed(k[1], k[2]) => Pushed(k[1], k[2])'
            /\ (Unseen(k[1], k[2]) /\ Pushed(k[1], k[2])')
               => /\ PushStep
                  /\ Item(k[1], k[2]) \in QueuedItems'
                  /\ Slot(k[1], k[2])' = VK_NULL_HANDLE
            /\ (Pushed(k[1], k[2]) /\ Slot(k[1], k[2])' # Slot(k[1], k[2]))
               => /\ CreateCalls(k[1], k[2])' = CreateCalls(k[1], k[2]) + 1
                  /\ Item(k[1], k[2]) \in ItemsInFlight
            /\ (SucceededCreateStep(k[1], k[2]) /\ state_replayer_alive)
               => Slot(k[1], k[2])' \in HandlesOf(k[1], k[2])' \ HandlesOf(k[1], k[2])
            /\ Completed(k[1], k[2])
               => /\ Slot(k[1], k[2])' = Slot(k[1], k[2])
                  /\ CreateCalls(k[1], k[2])' = CreateCalls(k[1], k[2])
            /\ loop_count = 1
               => /\ Built(k[1], k[2]) => Slot(k[1], k[2])' = Slot(k[1], k[2])
                  /\ Failed(k[1], k[2])
                     => /\ Slot(k[1], k[2])' = VK_NULL_HANDLE
                        /\ CreateCalls(k[1], k[2])' = CreateCalls(k[1], k[2])]_vars
    /\ [](\A k \in DeferredKeys :
            Built(k[1], k[2])
            => /\ Slot(k[1], k[2]) \in HandlesOf(k[1], k[2])
               /\ main.pc # "exited" => Slot(k[1], k[2]) \in LiveHandlesOf(k[1], k[2]))

\* Two repetitions: the first handle of shader module 1 was replaced by the
\* second, which is final now that the item is completed; the other shader
\* module is still queued.
C12_Witness ==
    /\ loop_count = 2
    /\ Completed(RESOURCE_SHADER_MODULE, 1)
    /\ Slot(RESOURCE_SHADER_MODULE, 1) = << RESOURCE_SHADER_MODULE, 1, 2 >>
    /\ Item(RESOURCE_SHADER_MODULE, 2) \in QueuedItems
    /\ Unseen(RESOURCE_GRAPHICS_PIPELINE, 1)

\* The destructor is in, or past, its destroy calls.
Destroying == main.pc \in { "dtor_destroy", "exited" }

\* Every worker thread has left worker_thread.
WorkersTerminated == \A w \in BagToSet(worker) : w.pc = "exited"

\* C13: once shutting_down is set, every worker thread eventually leaves its
\* loop unless the process dies in a create call, and no item is popped any
\* more; while a worker thread has not terminated the destructor has made no
\* destroy call (the pipeline cache and the handles in the registries are
\* not destroyed), and from its destroy calls on no registry slot changes.
C13_CooperativeShutdown ==
    /\ shutting_down ~> (WorkersTerminated \/ crashed)
    /\ [][shutting_down => ~PopStep]_vars
    /\ [](Destroying => WorkersTerminated)
    /\ [](~WorkersTerminated
          => /\ pipeline_cache # VK_NULL_HANDLE => vk_objects[pipeline_cache].destroyed = 0
             /\ \A t \in RegistryTags : \A k \in DOMAIN registries[t] :
                  registries[t][k] # VK_NULL_HANDLE
                  => vk_objects[registries[t][k]].destroyed = 0)
    /\ [][Destroying => registries' = registries]_vars

\* The destructor has set shutting_down and waits in join while a worker
\* still executes an item and another item is left in the queue.
C13_Witness ==
    /\ shutting_down /\ main.pc = "dtor_join"
    /\ RunningWorkers # {}
    /\ pipeline_work_queue # << >>

\* This step is a worker's create call: one that returns, or one the process
\* dies in.
DeferredCreateStep ==
    \/ \E k \in DeferredKeys : CreateCalls(k[1], k[2])' = CreateCalls(k[1], k[2]) + 1
    \/ RunningWorkers # {} /\ ~crashed /\ crashed'

\* C14 as stated: whenever a worker makes a create call for its item, the
\* objects of main that own the item's descriptor and output slot are alive.
C14_AsStated == [][DeferredCreateStep => state_replayer_alive]_vars

\* C14 on the runs in which main returns from its last line: when the
\* StateReplayer is destroyed no item is queued or being executed.
C14_AliveOnNormalReturn ==
    (~state_replayer_alive /\ exit_code = EXIT_SUCCESS)
    => (pipeline_work_queue = << >> /\ RunningWorkers = {})

\* main returned EXIT_SUCCESS and its StateReplayer is gone after all five
\* items were completed.
C14_Witness ==
    /\ ~state_replayer_alive /\ exit_code = EXIT_SUCCESS
    /\ completed_count = 5 /\ loop_count = 2

\* This step is a create call of any category, by the driver or by a worker:
\* one that returns, or one the process dies in.
CreateCallStep ==
    \/ vk_create_calls' # vk_create_calls
    \/ ~crashed /\ crashed'

\* C15 as stated: whenever a create call is issued the device has been
\* initialised.
C15_AsStated == [][CreateCallStep => device_was_init]_vars

\* The driver returns from a call of set_application_info.
SetApplicationInfoReturns ==
    /\ main.pc = "record" /\ CurrentTag = RESOURCE_APPLICATION_INFO
    /\ main' # main /\ main'.pc # "unwind" /\ faults' = faults

\* C15 on the archives that hand one application-info record to the replayer:
\* the device stays initialised and the pipeline cache stays what the first
\* call made it; a call of set_application_info on an initialised device
\* changes nothing but the driver's position; and when fewer records failed
\* than the archive has application-info records, the device is initialised
\* at every create call.
C15_InitOnceWhenInfoRead ==
    /\ [][device_was_init
          => /\ device_was_init'
             /\ pipeline_cache' = pipeline_cache]_vars
    /\ [][(SetApplicationInfoReturns /\ device_was_init)
          => UNCHANGED << registries, pipeline_cache, device_was_init,
                          pipeline_work_queue, queued_count, completed_count,
                          shutting_down, stats, exit_code, report, output,
                          vk_objects, vk_create_calls, crashed >>]_vars
    /\ [][(CreateCallStep /\ faults < Len(application_infos))
          => device_was_init]_vars

\* The second application-info record was handed to the replayer after the
\* first had initialised the device, and create calls were made since.
C15_Witness ==
    /\ application_infos = << 1, 2 >> /\ faults = 0
    /\ device_was_init /\ pipeline_cache = PIPELINE_CACHE_HANDLE
    /\ CreateCalls(RESOURCE_SHADER_MODULE, 1) = 1
    /\ CreateCalls(RESOURCE_SAMPLER, 1) = 1

\* Caught exceptions are the only failures of the run so far.
OnlyParseErrors == faults = Cardinality(parse_errors)

\* C16 as stated: a run on an archive with an application-info record whose
\* only failures are deserialization exceptions is not ended by them: it
\* neither dies nor returns EXIT_FAILURE.
C16_AsStated ==
    (application_infos # << >> /\ parse_errors # {} /\ OnlyParseErrors)
    => (~crashed /\ exit_code # EXIT_FAILURE)

\* This step is main catching the exception of state_replayer.parse.
ParseThrowsStep == parse_errors' # parse_errors

\* This step is an archive call of main that fails.
ArchiveFailsStep ==
    /\ main.pc \in { "prepare", "get_hash_list", "record" }
    /\ main'.pc = "unwind"

\* Position of a tag in playback_order.
TagIndex(tag) == CHOOSE i \in 1..Len(playback_order) : playback_order[i] = tag

\* C16 apart from the exception that leaves the device uninitialised: the
\* step that catches an exception logs that record, moves the driver to the
\* next hash (or past the tag) and changes nothing else; the driver reaches
\* the pipelines only through the barrier after RESOURCE_RENDER_PASS and the
\* report only through the final drain, and the report returns
\* EXIT_SUCCESS whatever was skipped; a failing archive call makes main
\* return EXIT_FAILURE, for good; a run whose only failures are caught
\* exceptions never returns EXIT_FAILURE and dies only in a create call on a
\* device that was never initialised.
C16_ExceptionSkipsOneRecord ==
    /\ [][ParseThrowsStep
          => /\ main.pc = "record"
             /\ parse_errors' = parse_errors \cup { << CurrentTag, CurrentHash >> }
             /\ main' = AfterRecord(main)
             /\ UNCHANGED << registries, pipeline_cache, device_was_init,
                             pipeline_work_queue, queued_count, completed_count,
                             shutting_down, stats, worker, main_waiting, exit_code,
                             report, output, state_replayer_alive, vk_objects,
                             vk_create_calls, crashed >>]_vars
    /\ [][/\ (main'.tag = TagIndex(RESOURCE_GRAPHICS_PIPELINE) /\ main.tag # main'.tag)
             => main.pc = "sync_render_pass"
          /\ (main'.pc = "report" /\ main.pc # "report") => main.pc = "final_sync"
          /\ (main.pc = "report" /\ main'.pc # "report") => exit_code' = EXIT_SUCCESS
          /\ ArchiveFailsStep => exit_code' = EXIT_FAILURE
          /\ exit_code = EXIT_FAILURE => exit_code' = EXIT_FAILURE]_vars
    /\ [](OnlyParseErrors
          => /\ exit_code # EXIT_FAILURE
             /\ crashed => ~device_was_init)

\* The record of graphics pipeline 1 threw: it was never enqueued, pipeline 2
\* was built after the barrier, and main returned EXIT_SUCCESS.
C16_Witness ==
    /\ parse_errors = { << RESOURCE_GRAPHICS_PIPELINE, 1 >> }
    /\ Unseen(RESOURCE_GRAPHICS_PIPELINE, 1)
    /\ Completed(RESOURCE_GRAPHICS_PIPELINE, 2)
    /\ Completed(RESOURCE_COMPUTE_PIPELINE, 1)
    /\ exit_code = EXIT_SUCCESS

\* The predicate of C17 for a pipeline hash.
BothFiltersEmpty == filter_graphics = {} /\ filter_compute = {}
ShouldPush(tag, hash) == BothFiltersEmpty \/ hash \in FilterOf(tag)

\* This step hands the pipeline (tag, hash) to its enqueue operation.
HandedStep(tag, hash) ==
    hash \notin HandedHashes(tag) /\ hash \in HandedHashes(tag)'

\* The pipeline records main has handed to the enqueue when playback is over.
Deserialized(tag) == { h \in ArchiveSet(tag) : << tag, h >> \notin parse_errors }

\* C17: the enqueue of a pipeline pushes one item for the hash if both
\* filters are empty or the hash is in the filter of its category, and
\* otherwise pushes nothing and sets the output slot to the null handle; so
\* among the pipelines handed to the enqueue exactly those are pushed; with
\* both filters empty every one is pushed, all of the archive that were
\* deserialized once playback is over; with exactly one filter non-empty no
\* pipeline of the other category is pushed and each of its output slots is
\* null.
C17_PushedIffFilterAccepts ==
    /\ [][\A t \in PipelineTags : \A h \in ArchiveSet(t) :
            HandedStep(t, h)
            => IF ShouldPush(t, h)
               THEN /\ Pushed(t, h)' /\ ~Pushed(t, h)
                    /\ pipeline_work_queue' = Append(pipeline_work_queue, Item(t, h))
                    /\ queued_count' = queued_count + 1
               ELSE /\ ~Pushed(t, h)'
                    /\ output'[t][h] = VK_NULL_HANDLE
                    /\ UNCHANGED << pipeline_work_queue, queued_count, registries >>]_vars
    /\ [](\A t \in PipelineTags :
            /\ \A h \in PushedHashes(t) : ShouldPush(t, h)
            /\ state_replayer_alive
               => /\ PushedHashes(t) = { h \in HandedHashes(t) : ShouldPush(t, h) }
                  /\ BothFiltersEmpty => PushedHashes(t) = HandedHashes(t)
                  /\ main.pc = "report" => HandedHashes(t) = Deserialized(t)
                  /\ (FilterOf(t) = {} /\ ~BothFiltersEmpty)
                     => /\ PushedHashes(t) = {}
                        /\ \A h \in HandedHashes(t) : output[t][h] = VK_NULL_HANDLE)

\* Playback is over with --filter-graphics 2 3 and no compute filter: the
\* compute pipeline was handed over and rejected, graphics pipeline 2 pushed.
C17_Witness ==
    /\ main.pc = "report" /\ filter_graphics = { 2, 3 } /\ filter_compute = {}
    /\ HandedHashes(RESOURCE_COMPUTE_PIPELINE) = { 1 }
    /\ PushedHashes(RESOURCE_COMPUTE_PIPELINE) = {}
    /\ output[RESOURCE_COMPUTE_PIPELINE][1] = VK_NULL_HANDLE
    /\ PushedHashes(RESOURCE_GRAPHICS_PIPELINE) = { 2 }
    /\ HandedHashes(RESOURCE_GRAPHICS_PIPELINE) = { 1, 2 }

\* This step issues the create call of the trivial object (tag, hash).
TrivialCreateStep(tag, hash) == CreateCalls(tag, hash)' = CreateCalls(tag, hash) + 1

\* The handles the device returned for (tag, hash) in this step.
NewHandles(tag, hash) == { x \in HandlesOf(tag, hash)' : x \notin HandlesOf(tag, hash) }

\* C18: the create call of a trivial object is made by the driver while it
\* handles that record, in the same step that returns from the enqueue; the
\* step leaves the work queue, queued_count, completed_count, the workers, the
\* statistics and the driver's outputs alone; when the call succeeds the new
\* handle is stored in the registry of the category under the hash, nothing
\* else in the registries changes and the driver goes on; when the call fails
\* no registry changes.  No trivial object is ever in the work queue, and a
\* trivial registry holds exactly the hashes whose create call succeeded.
C18_TrivialEnqueueSynchronous ==
    /\ [][\A t \in TrivialTags : \A h \in ArchiveSet(t) :
            TrivialCreateStep(t, h)
            => /\ main.pc = "record" /\ CurrentTag = t /\ CurrentHash = h
               /\ UNCHANGED << pipeline_work_queue, queued_count, completed_count,
                               worker, stats, output, main_waiting >>
               /\ IF NewHandles(t, h) # {}
                  THEN /\ \E x \in NewHandles(t, h) :
                            /\ NewHandles(t, h) = { x }
                            /\ registries' = [registries EXCEPT ![t] = MapPut(@, h, x)]
                       /\ main' = AfterRecord(main)
                       /\ faults' = faults /\ ~crashed'
                  ELSE /\ registries' = registries
                       /\ vk_objects' = vk_objects
                       /\ \/ crashed'
                          \/ main' = AfterRecord(main) /\ faults' = faults + 1]_vars
    /\ [](/\ \A k \in 1..Len(pipeline_work_queue) :
                pipeline_work_queue[k].tag \notin TrivialTags
          /\ \A w \in RunningWorkers : w.item.tag \notin TrivialTags
          /\ \A t \in TrivialTags : \A h \in ArchiveSet(t) :
                /\ CreateCalls(t, h) <= 1
                /\ Pushed(t, h) <=> HandlesOf(t, h) # {}
                /\ Pushed(t, h) => Slot(t, h) \in HandlesOf(t, h))

\* The sampler was created and stored and the create call of the descriptor
\* set layout failed and left no entry, while the two shader module items
\* pushed before them are still in the queue, untouched.
C18_Witness ==
    /\ CreateCalls(RESOURCE_SAMPLER, 1) = 1
    /\ Pushed(RESOURCE_SAMPLER, 1)
    /\ Slot(RESOURCE_SAMPLER, 1) = << RESOURCE_SAMPLER, 1, 1 >>
    /\ CreateCalls(RESOURCE_DESCRIPTOR_SET_LAYOUT, 1) = 1
    /\ ~Pushed(RESOURCE_DESCRIPTOR_SET_LAYOUT, 1)
    /\ Len(pipeline_work_queue) = 2 /\ queued_count = 2 /\ completed_count = 0
    /\ ~crashed /\ main.pc = "record" /\ CurrentTag = RESOURCE_PIPELINE_LAYOUT

\* A worker leaves the top of its loop in this step.
LeavesPopStep == CopiesIn(IdleWorker, worker') < CopiesIn(IdleWorker, worker)

\* C19: shutting_down stays set; from then on the queue is frozen: a worker
\* that leaves the top of its loop terminates, also when the queue holds
\* items, and no worker starts an item; an item in the queue has had no create
\* call, has a null registry slot and is not counted in completed_count.  So
\* an item queued when shutting_down is set stays queued, uncreated, uncounted
\* and null for the rest of the run.
C19_ShutdownAbandonsQueue ==
    /\ [][shutting_down
          => /\ shutting_down'
             /\ pipeline_work_queue' = pipeline_work_queue
             /\ queued_count' = queued_count
             /\ \A w \in RunningWorkers' : w.item \in ItemsInFlight
             /\ LeavesPopStep
                => /\ CopiesIn(ExitedWorker, worker') = CopiesIn(ExitedWorker, worker) + 1
                   /\ completed_count' = completed_count
                   /\ vk_create_calls' = vk_create_calls
                   /\ registries' = registries]_vars
    /\ [](\A k \in 1..Len(pipeline_work_queue) :
            LET item == pipeline_work_queue[k] IN
            /\ CreateCalls(item.tag, item.hash) = 0
            /\ Slot(item.tag, item.hash) = VK_NULL_HANDLE
            /\ HandlesOf(item.tag, item.hash) = {}
            /\ item \notin ItemsInFlight
            /\ \A j \in 1..Len(pipeline_work_queue) :
                  pipeline_work_queue[j] = item => j = k)
    /\ [](completed_count + Len(pipeline_work_queue) <= queued_count)
    /\ []((WorkersTerminated /\ ~crashed)
            => completed_count = queued_count - Len(pipeline_work_queue))

\* The replayer is destroyed after an early return: its worker completed one
\* shader module and terminated with the other still in the queue.
C19_Witness ==
    /\ main.pc = "exited" /\ shutting_down /\ ~crashed
    /\ num_worker_threads >= 1 /\ WorkersTerminated
    /\ Len(pipeline_work_queue) = 1
    /\ queued_count = 2 /\ completed_count = 1
    /\ loop_count >= 1
    /\ CreateCalls(pipeline_work_queue[1].tag, pipeline_work_queue[1].hash) = 0

\* The position of a record in the playback of main: categories in
\* playback_order, the hashes of a category as the archive lists them.
HashIndex(tag, hash) ==
    CHOOSE k \in 1..Len(ArchiveHashes(tag)) : ArchiveHashes(tag)[k] = hash
PlaybackBefore(a, b) ==
    \/ TagIndex(a.tag) < TagIndex(b.tag)
    \/ a.tag = b.tag /\ HashIndex(a.tag, a.hash) < HashIndex(b.tag, b.hash)

DeferredItems == { Item(k[1], k[2]) : k \in DeferredKeys }
PushedItems == { x \in DeferredItems : Pushed(x.tag, x.hash) }
RunningCount == BagCardinality(worker) - CopiesIn(IdleWorker, worker)
                  - CopiesIn(BlockedWorker, worker) - CopiesIn(ExitedWorker, worker)

\* A worker returns to the top of its loop, or terminates, in this step.
ItemEndsStep == RunningCount' < RunningCount

\* C20: every push, of whatever category, appends its item at the back of the
\* one queue, for a hash not pushed before and later in the playback than all
\* items pushed so far; every pop removes the front item and hands it to
\* exactly one worker, and all items pushed before it have left the queue; an
\* item is in the queue at most once, never both queued and being executed,
\* and never executed by two workers at a time; completed_count changes only
\* by one, in the step in which a worker ends its item, and every such step
\* changes it, so it is the number of items popped and ended; with one worker
\* thread a create call for an item is made only when every item pushed before
\* it is completed and no item pushed after it has had a create call.
C20_QueueIsFifo ==
    /\ [][\A x \in DeferredItems :
            (~Pushed(x.tag, x.hash) /\ Pushed(x.tag, x.hash)')
            => /\ pipeline_work_queue' = Append(pipeline_work_queue, x)
               /\ \A y \in PushedItems : PlaybackBefore(y, x)]_vars
    /\ [][PopStep
          => /\ pipeline_work_queue' = Tail(pipeline_work_queue)
             /\ RunningCount' = RunningCount + 1
             /\ worker' = Moved(worker, IdleWorker,
                                [pc |-> "run", item |-> Head(pipeline_work_queue), i |-> 0])
             /\ \A y \in PushedItems :
                   PlaybackBefore(y, Head(pipeline_work_queue)) => y \notin QueuedItems
             /\ completed_count' = completed_count]_vars
    /\ [][pipeline_work_queue' # pipeline_work_queue
          => \/ PopStep
             \/ \E x \in DeferredItems : pipeline_work_queue' = Append(pipeline_work_queue, x)]_vars
    /\ [](/\ \A j, k \in 1..Len(pipeline_work_queue) :
                j < k => PlaybackBefore(pipeline_work_queue[j], pipeline_work_queue[k])
          /\ \A w \in RunningWorkers :
                /\ CopiesIn(w, worker) = 1
                /\ w.item \in PushedItems /\ w.item \notin QueuedItems
                /\ \A v \in RunningWorkers : v.item = w.item => v = w
          /\ crashed \/ completed_count = queued_count - Len(pipeline_work_queue) - RunningCount)
    /\ [][/\ ItemEndsStep => (completed_count' = completed_count + 1
                               /\ RunningCount' = RunningCount - 1)
          /\ completed_count' # completed_count => ItemEndsStep]_vars
    /\ [][\A x \in DeferredItems :
            (num_worker_threads = 1 /\ CreateCalls(x.tag, x.hash)' = CreateCalls(x.tag, x.hash) + 1)
            => \A y \in DeferredItems \ { x } :
                  /\ (Pushed(y.tag, y.hash) /\ PlaybackBefore(y, x)) => Completed(y.tag, y.hash)
                  /\ PlaybackBefore(x, y) => CreateCalls(y.tag, y.hash) = 0]_vars

\* Two workers execute the two graphics pipelines, popped in that order, while
\* the compute pipeline pushed after them waits in the same queue.
C20_Witness ==
    /\ num_worker_threads = 2 /\ ~crashed
    /\ ItemsInFlight = { Item(RESOURCE_GRAPHICS_PIPELINE, 1), Item(RESOURCE_GRAPHICS_PIPELINE, 2) }
    /\ pipeline_work_queue = << Item(RESOURCE_COMPUTE_PIPELINE, 1) >>
    /\ queued_count = 5 /\ completed_count = 2

\* The branch a deferred enqueue takes for (tag, hash): shader modules are
\* always accepted, pipelines when the filter test passes.
Accepted(tag, hash) == tag = RESOURCE_SHADER_MODULE \/ ShouldPush(tag, hash)

\* The enqueue returns true to the deserializer, which goes on with the next
\* record without a failure.
ReturnsSuccess == main' = AfterRecord(main) /\ faults' = faults /\ crashed' = crashed

\* C21: every step in which a deferred enqueue handles a hash returns success
\* and touches neither completed_count, the statistics, the device nor a
\* running worker; an accepted one appends exactly one item for the hash,
\* raises queued_count by exactly one and inserts a null slot for the hash,
\* absent so far, leaving every other slot of every registry as it was; a
\* filtered-out one leaves the queue, both counters, the workers and every
\* registry unchanged and its only effect is the null handle in the caller's
\* output slot of that hash.
C21_DeferredEnqueueFrame ==
    [][\A t \in DeferredTags : \A h \in ArchiveSet(t) :
         HandedStep(t, h)
         => /\ main.pc = "record" /\ CurrentTag = t /\ CurrentHash = h
            /\ ReturnsSuccess
            /\ UNCHANGED << completed_count, stats, vk_objects, vk_create_calls,
                            pipeline_cache, shutting_down, main_waiting >>
            /\ RunningWorkers' = RunningWorkers
            /\ BagCardinality(worker') = BagCardinality(worker)
            /\ IF Accepted(t, h)
               THEN /\ pipeline_work_queue' = Append(pipeline_work_queue, Item(t, h))
                    /\ Len(pipeline_work_queue') = Len(pipeline_work_queue) + 1
                    /\ queued_count' = queued_count + 1
                    /\ h \notin DOMAIN registries[t]
                    /\ registries' = [registries EXCEPT ![t] = MapPut(@, h, VK_NULL_HANDLE)]
                    /\ \A u \in RegistryTags : \A g \in DOMAIN registries[u] :
                          g \in DOMAIN registries'[u] /\ registries'[u][g] = registries[u][g]
               ELSE /\ UNCHANGED << pipeline_work_queue, queued_count, registries, worker >>
                    /\ output' = [output EXCEPT ![t] = MapPut(@, h, VK_NULL_HANDLE)]]_vars

\* With --filter-graphics 2 3 graphics pipeline 1 was filtered out and
\* graphics pipeline 2 accepted after it: one more item is counted and queued
\* behind the two shader modules, and only pipeline 2 has a registry slot.
C21_Witness ==
    /\ filter_graphics = { 2, 3 } /\ filter_compute = {}
    /\ HandedHashes(RESOURCE_GRAPHICS_PIPELINE) = { 1, 2 }
    /\ DOMAIN registries[RESOURCE_GRAPHICS_PIPELINE] = { 2 }
    /\ output[RESOURCE_GRAPHICS_PIPELINE][1] = VK_NULL_HANDLE
    /\ Slot(RESOURCE_GRAPHICS_PIPELINE, 2) = VK_NULL_HANDLE
    /\ Item(RESOURCE_GRAPHICS_PIPELINE, 2) \in QueuedItems
    /\ queued_count = 3 /\ completed_count = 2

\* The value in the deferred registry slot (tag, hash) is assigned in this step.
SlotWriteStep(tag, hash) ==
    /\ hash \in DOMAIN registries[tag]
    /\ \/ registries'[tag][hash] # registries[tag][hash]
       \/ CreateCalls(tag, hash)' # CreateCalls(tag, hash)

\* main reads the sizes of the registries for its report in this step.
ReportStep == main.pc = "report" /\ main' # main

\* The final barrier has returned.
FinalBarrierReturned == main.pc = "report" \/ report # << >>

\* C22: the slot of a hash in a deferred registry is assigned only in a step
\* of a worker, the one that holds the item of that hash, the driver standing
\* still, and the slot was inserted by the driver before; slots enter a
\* deferred registry only in driver steps and never leave; no two workers
\* hold the same item; main reads the deferred registries for its report only
\* when the final barrier has returned, in a state with no item queued or
\* held, and from the return of the final barrier on no registry changes; the
\* destructor reads them only when every worker has terminated.
C22_SlotsWrittenByWorkersOnly ==
    /\ [][\A t \in DeferredTags : \A h \in ArchiveSet(t) :
            SlotWriteStep(t, h)
            => /\ main' = main
               /\ \E w \in RunningWorkers :
                     /\ w.item = Item(t, h)
                     /\ worker' = Moved(worker, w, [w EXCEPT !.i = @ + 1])
               /\ DOMAIN registries' = DOMAIN registries
               /\ \A u \in RegistryTags : DOMAIN registries'[u] = DOMAIN registries[u]
               /\ \A u \in RegistryTags : \A g \in DOMAIN registries[u] :
                     << u, g >> # << t, h >> => registries'[u][g] = registries[u][g]]_vars
    /\ [][\A t \in DeferredTags :
            /\ DOMAIN registries[t] \subseteq DOMAIN registries'[t]
            /\ DOMAIN registries'[t] # DOMAIN registries[t]
               => main.pc = "record" /\ CurrentTag = t /\ main' # main /\ worker' \in { worker, Woken(worker) }]_vars
    /\ [](\A w, v \in RunningWorkers :
            /\ CopiesIn(w, worker) = 1
            /\ w.item.tag \in DeferredTags
            /\ w.item.hash \in DOMAIN registries[w.item.tag]
            /\ v.item = w.item => v = w)
    /\ [][ReportStep => (Quiescent /\ registries' = registries)]_vars
    /\ [](main.pc = "report" => (RunningWorkers = {} /\ pipeline_work_queue = << >>))
    /\ [][FinalBarrierReturned => registries' = registries]_vars
    /\ [][(main.pc = "dtor_destroy" /\ main' # main) => WorkersTerminated]_vars

\* main has reported after the final barrier; the two workers have filled
\* every slot of the three deferred registries.
C22_Witness ==
    /\ report # << >> /\ ~crashed /\ num_worker_threads = 2
    /\ \A k \in DeferredKeys :
          /\ Pushed(k[1], k[2])
          /\ Slot(k[1], k[2]) # VK_NULL_HANDLE
    /\ report.size[RESOURCE_GRAPHICS_PIPELINE] = 2
    /\ loop_count = 2

\* The four bytes of blob after offset.
Word(blob, offset) == SubSeq(blob, offset + 1, offset + 4)

\* The conditions of C23 on the file just read.
HeaderMatchesDevice ==
    /\ Len(on_disk_cache) >= 16 + VK_UUID_SIZE
    /\ Word(on_disk_cache, 0) = LittleEndianBytes(uint32_t(16 + VK_UUID_SIZE))
    /\ Word(on_disk_cache, 4) = LittleEndianBytes(uint32_t(1))
    /\ Word(on_disk_cache, 8) = LittleEndianBytes(props.vendorID)
    /\ Word(on_disk_cache, 12) = LittleEndianBytes(props.deviceID)
    /\ SubSeq(on_disk_cache, 17, 16 + VK_UUID_SIZE) = props.pipelineCacheUUID

\* validate_pipeline_cache_header has returned false.
Rejected == validated = << FALSE >>

\* C23: validate_pipeline_cache_header returns true exactly for a blob of at
\* least 16 + VK_UUID_SIZE bytes whose little-endian length word is
\* 16 + VK_UUID_SIZE, whose version word is 1 and whose vendor id, device id
\* and UUID are those of the device; after a rejection every
\* vkCreatePipelineCache call is made without initial data, the run does not
\* exit, and set_application_info returns with the cache the last call
\* created, or null if the device refused it.
C23_HeaderAcceptedIffMatches ==
    /\ [](validated # << >> => (validated[1] <=> HeaderMatchesDevice))
    /\ [](Rejected
            => /\ info = << >>
               /\ \A k \in 1..Len(create_cache_calls) : create_cache_calls[k].data = << >>
               /\ cache_pc \in { "create", "create_blank", "done" }
               /\ exit_code # EXIT_FAILURE
               /\ cache_pc = "done"
                  => /\ create_cache_calls # << >>
                     /\ (pipeline_cache = PIPELINE_CACHE_HANDLE)
                           <=> create_cache_calls[Len(create_cache_calls)].ok
                     /\ pipeline_cache \in { PIPELINE_CACHE_HANDLE, VK_NULL_HANDLE })
    /\ [][Rejected => (Rejected' /\ (cache_pc # "done" => cache_pc' # cache_pc))]_vars

\* A file whose header is that of the device except for the last byte of the
\* UUID was rejected, and the cache was created by one call without data.
C23_Witness ==
    /\ cache_pc = "done" /\ Rejected
    /\ Len(on_disk_cache) = 16 + VK_UUID_SIZE
    /\ SubSeq(on_disk_cache, 1, 31) = SubSeq(HeaderOf(props), 1, 31)
    /\ create_cache_calls = << [data |-> << >>, ok |-> TRUE] >>
    /\ pipeline_cache = PIPELINE_CACHE_HANDLE

\* C24: in every reachable state, before and after shutting_down is set,
\* queued_count is completed_count plus the number of items in the work
\* queue plus the number of items a worker has popped and not yet marked
\* completed.
C24_CountersBalance ==
    queued_count = completed_count + Len(pipeline_work_queue) + RunningCount

\* Shutdown was requested while one graphics pipeline is being executed and
\* another is still queued, the two shader modules being completed.
C24_Witness ==
    /\ shutting_down /\ ~crashed
    /\ completed_count = 2
    /\ Len(pipeline_work_queue) = 1
    /\ RunningCount = 1
    /\ queued_count = 4

\* The handle h is one the device created and has not been asked to destroy.
Live(h) == h \in DOMAIN vk_objects /\ vk_objects[h].destroyed = 0

\* The output slot and the registry slot of (tag, hash) hold the same value,
\* null or a live handle.
SlotsAgree(tag, hash) ==
    /\ hash \in DOMAIN output[tag]
    /\ output[tag][hash] = Slot(tag, hash)
    /\ Slot(tag, hash) # VK_NULL_HANDLE => Live(Slot(tag, hash))

\* C25 as stated: when a barrier returns, the output slot and the registry
\* slot of every pushed deferred item agree and hold null or a live handle.
C25_AsStated ==
    [][SyncReturnStep
       => \A k \in DeferredKeys : Pushed(k[1], k[2]) => SlotsAgree(k[1], k[2])]_vars

\* C25 where no repetition failed after an earlier one had succeeded: when a
\* barrier returns, a registry slot that holds a handle holds a live one and
\* the output slot holds the same; a null registry slot of a hash for which
\* the device never created an object has a null output slot; and no registry
\* slot ever holds a destroyed handle while the replayer is in use.
C25_AgreeUnlessRecreateFailed ==
    /\ [][SyncReturnStep
          => \A k \in DeferredKeys :
                Pushed(k[1], k[2])
                => /\ Slot(k[1], k[2]) # VK_NULL_HANDLE => SlotsAgree(k[1], k[2])
                   /\ HandlesOf(k[1], k[2]) = {} => SlotsAgree(k[1], k[2])
                   /\ loop_count <= 1 => SlotsAgree(k[1], k[2])]_vars
    /\ [](main.pc # "exited"
            => \A k \in DeferredKeys :
                  (Pushed(k[1], k[2]) /\ Slot(k[1], k[2]) # VK_NULL_HANDLE)
                  => Live(Slot(k[1], k[2])))

\* The final barrier has returned after two repetitions of every item: each
\* slot holds the second handle of its hash, the first one being destroyed,
\* and the output slot holds the same.
C25_Witness ==
    /\ main.pc = "report" /\ loop_count = 2 /\ ~crashed
    /\ \A k \in DeferredKeys :
          /\ Pushed(k[1], k[2])
          /\ Slot(k[1], k[2]) = << k[1], k[2], 2 >>
          /\ SlotsAgree(k[1], k[2])
          /\ vk_objects[<< k[1], k[2], 1 >>].destroyed = 1

\* The caller's own poll_progress is entered, or returns at once.
PollCalled ==
    /\ caller.pc = "idle"
    /\ \/ caller'.pc = "poll_started" /\ caller'.in_wait = "no"
       \/ caller'.pc = "idle" /\ result'.op = "poll_progress" /\ result' # result
\* The caller is inside poll_progress.
InPoll == caller.pc \in { "poll_started", "poll_counters", "poll_drain" }
\* A step of poll_progress from inside it.
PollStep == InPoll /\ caller' # caller
\* The step is the return of poll_progress with that value.
PollReturns(value) == ~InPoll' /\ result'.op = "poll_progress" /\ result'.value = value

\* C26: poll_progress returns Error when process is INVALID_HANDLE_VALUE and
\* only then; with a process and progress_started false it returns
\* ResultNotReady and leaves the progress argument and the FIFO as they were;
\* with progress_started true it fills in the counters of its argument, then
\* reads exactly floor(read_avail / ControlBlockMessageSize) messages in one
\* step that no write of the child interrupts, and returns Complete if
\* progress_complete was true when it was loaded at the start of the call,
\* Running if not.
C26_PollProgress ==
    /\ [][PollCalled =>
            /\ UNCHANGED << progress, shm >>
            /\ IF impl.process = INVALID_HANDLE_VALUE
               THEN caller'.pc = "idle" /\ result'.value = "Error"
               ELSE caller'.pc = "poll_started"
                    /\ caller'.complete = shm.progress_complete]_vars
    /\ [][PollStep => caller'.complete = caller.complete]_vars
    /\ [][PollStep /\ caller.pc = "poll_started" =>
            /\ UNCHANGED << progress, shm >>
            /\ IF shm.progress_started
               THEN caller'.pc = "poll_counters"
               ELSE PollReturns("ResultNotReady")]_vars
    /\ [][PollStep /\ caller.pc = "poll_counters" =>
            /\ caller.in_wait = "no" => progress' = << shm.ticks >>
            /\ caller'.pc = "poll_drain"
            /\ UNCHANGED shm]_vars
    /\ [][PollStep /\ caller.pc = "poll_drain" =>
            /\ shm.fifo - shm'.fifo =
                 (shm.fifo \div ControlBlockMessageSize) * ControlBlockMessageSize
            /\ result'.logged = shm.fifo \div ControlBlockMessageSize
            /\ UNCHANGED progress
            /\ PollReturns(IF caller.complete THEN "Complete" ELSE "Running")]_vars

\* poll_progress has returned Complete after it read two messages and left
\* half a message in the FIFO of a child that has exited.
C26_Witness ==
    /\ caller.pc = "idle"
    /\ result = [op |-> "poll_progress", value |-> "Complete", logged |-> 2]
    /\ shm.fifo = ControlBlockMessageSize \div 2
    /\ child.state = "exited"
    /\ progress = << shm.ticks >>

\* A call made by the caller from outside any call returns op's value at once.
ReturnsAtOnce(op) ==
    caller.pc = "idle" /\ caller'.pc = "idle" /\ result' # result /\ result'.op = op
\* wait is called: it returns at once or enters its first poll_progress.
WaitCalled ==
    /\ caller.pc = "idle"
    /\ ReturnsAtOnce("wait") \/ (caller'.pc = "poll_started" /\ caller'.in_wait = "first")
\* wait has closed the process handle and the object is still there.
WaitClosed == os["process"].closed >= 1 /\ caller.pc # "destroyed"
\* The value a call made now would return, when the handle is invalid.
ValueWithoutProcess(op) ==
    CASE op = "is_process_complete" -> TRUE
      [] op = "kill" -> FALSE
      [] op = "wait" -> FALSE
      [] op = "poll_progress" -> "Error"

\* C27: wait returns false at once when process is INVALID_HANDLE_VALUE and
\* otherwise goes on to wait for the child; once the child has exited, wait
\* closes the process handle once, sets process to INVALID_HANDLE_VALUE and
\* returns true exactly when the exit code is 0; from then on process stays
\* invalid, every is_process_complete returns true, every kill and wait
\* return false at once, every poll_progress returns Error, and the process
\* handle is never closed a second time, by the destructor or otherwise.
C27_WaitInvalidatesProcess ==
    /\ [][WaitCalled =>
            IF impl.process = INVALID_HANDLE_VALUE
            THEN ReturnsAtOnce("wait") /\ result'.value = FALSE
            ELSE caller'.pc = "poll_started"]_vars
    /\ [][caller.pc = "wait_close" /\ caller' # caller =>
            /\ child.state = "exited"
            /\ result' = [op |-> "wait", value |-> (child.code = 0)]
            /\ impl'.process = INVALID_HANDLE_VALUE
            /\ os'["process"].closed = os["process"].closed + 1
            /\ caller'.pc = "idle"]_vars
    /\ [](WaitClosed => impl.process = INVALID_HANDLE_VALUE)
    /\ [][WaitClosed /\ caller.pc = "idle" =>
            \/ caller'.pc = "destroyed" /\ os'["process"] = os["process"]
            \/ /\ caller'.pc = "idle"
               /\ result'.op \in { "is_process_complete", "kill", "wait", "poll_progress" }
               /\ result'.value = ValueWithoutProcess(result'.op)
               /\ UNCHANGED << impl, os, child, shm, progress >>]_vars
    /\ [](os["process"].closed <= 1)

\* wait has closed the handle of a child that exited with code 0, a later
\* kill has returned false, and the object has been destroyed.
C27_Witness ==
    /\ caller.pc = "destroyed"
    /\ os["process"] = [opened |-> 1, closed |-> 1]
    /\ impl.process = INVALID_HANDLE_VALUE
    /\ child = [state |-> "exited", code |-> 0]

\* The names generated so far, each with the call and the buffer it is in.
GeneratedNames ==
    { << t, k, start_calls[t][k] >> :
        t \in DOMAIN start_calls, k \in { "shm_name", "shm_mutex_name" } }
    \ { << t, k, << >> >> :
        t \in DOMAIN start_calls, k \in { "shm_name", "shm_mutex_name" } }

\* C28: however the start calls of one process interleave, no two of the
\* names they have generated are equal, mapping names and mutex names taken
\* together; and every name is generated by a step that changes shm_index.
C28_NamesPairwiseDistinct ==
    /\ [](\A a, b \in GeneratedNames : a[3] = b[3] => a = b)
    /\ [][start_calls' # start_calls => shm_index' # shm_index]_vars

\* All the calls have generated both names, and the counter has wrapped from
\* INT32_MAX to INT32_MIN on the way.
C28_Witness ==
    /\ start_calls # << >>
    /\ \A t \in DOMAIN start_calls : start_calls[t].pc = "create_file_mapping"
    /\ shm_index < 0
    /\ Cardinality(GeneratedNames) = 2 * MaxStarts

\* The handles and the view that start can open.
Opened == OsObjects \ { NULL }
\* The OS has been asked to release h as often as to open it.
Released(h) == os[h].closed = os[h].opened
\* start opened the NUL file and then failed to create the child.
NulLeftOpen == os["nul"].opened = 1 /\ os["process"].opened = 0

\* C29 as stated: once the object is destroyed, every handle that start
\* opened has been released exactly once.
C29_AsStated == caller.pc = "destroyed" => \A h \in Opened : Released(h)

\* C29, what holds: nothing is opened twice, released twice or released
\* before it is opened; once the object is destroyed the mapping, the view,
\* the mutex, the thread handle and the process handle have been released
\* exactly once if they were opened, on every return path of start; and the
\* NUL file has been released exactly once unless CreateProcessA failed
\* after it was opened, in which case it is never released.
C29_ReleasedOnceExceptNul ==
    /\ \A h \in Opened : os[h].opened <= 1 /\ os[h].closed <= os[h].opened
    /\ caller.pc = "destroyed" =>
         \A h \in Opened : IF h = "nul" /\ NulLeftOpen THEN os[h].closed = 0
                            ELSE Released(h)
    /\ os["thread"].opened = 1 => Released("thread") /\ os["process"].opened = 1

\* A quiet start has failed at CreateProcessA and the object has been
\* destroyed: the mapping, the view and the mutex are released, the NUL file
\* is not.
C29_Witness ==
    /\ caller.pc = "destroyed"
    /\ NulLeftOpen /\ os["nul"].closed = 0
    /\ \A h \in { "mapping", "view", "mutex" } : os[h] = [opened |-> 1, closed |-> 1]
====
